---- MODULE Spec2Model ----
(***************************************************************************)
(* NeuronOS: tool registry (neuronos_tool_registry.c) and model registry   *)
(* and auto-selection (hardware / model scanner source).                   *)
(*                                                                         *)
(* C strings are TLA+ strings, a null pointer is the value NULL, a C array  *)
(* is a function over its index range, a struct is a record.               *)
(***************************************************************************)
EXTENDS Integers, Sequences, FiniteSets, TLC

VARIABLES
    \* tool registry
    reg,        \* struct neuronos_tool_reg: [tools, count]
    granted,    \* the capability mask the agent holds
    okNames,    \* history: names of the registrations that returned 0, in order
    call,       \* the last API call and its arguments
    ret,        \* the int returned by the last register / register_defaults call
    result,     \* the neuronos_tool_result_t returned by the last execute call
    invoked,    \* the executor invocations made by the last execute call
    grammar,    \* what the last neuronos_tool_grammar_names call produced
    \* model registry
    hw,         \* neuronos_hw_info_t: [model_budget_mb]
    scanned,    \* history: the entries in the order the traversal wrote them
    scan,       \* what neuronos_model_scan returned: [entries, null, out_count]
    best,       \* what neuronos_model_select_best returned: position from 1,
                \* 0 for NULL, -1 before the call
    mop,        \* the last model registry call, "crash" once the process died
    tree,       \* the directory that was scanned
    \* score_model on its own
    pair,       \* the budget and the two entries scored
    pairScores, \* their two scores, <<>> before the call
    fma,        \* whether the build fuses the multiply-add of score_model
    \* hardware detection
    plat,       \* the platform the build is for and what it reports
    hwinfo,     \* the RAM fields of what neuronos_detect_hardware returned
    \* scalar kernels
    kin,        \* the arguments of scalar_vec_dot_i2_i8: [n, x, bx, y, nrc]
    ks,         \* the floats it stored in s[0 .. nrc-1], <<>> before the call
    blk,        \* a packed block of 32 bytes to unpack and pack again
    q8,         \* the 128 codes the packing loop reads
    out,        \* the 32 bytes the packing loop writes
    kj,         \* the j of the packing loop
    \* quantization
    qin,        \* the arguments of scalar_quantize_i2 and whether its malloc
                \* succeeds: [src, nrow, n_per_row, alloc_ok]
    qres,       \* what it returned and wrote to dst: [ret, dst]
    qres2,      \* the same for the dequantized weights of qres
    \* GEMV
    gin,        \* a weight matrix, an activation vector and the strides:
                \* [n, x, bx, bs, y, nr]
    gdot,       \* the writes of scalar_vec_dot_i2_i8 to s, as <<byte offset,
                \* float>> pairs; {<<-1, 0>>} before the call
    ggemv,      \* the writes of scalar_gemv_i2_i8 to s
    \* command line
    argv,       \* the command line: [argc, cmd, sub, prompt]
    env,        \* what the library calls of this run report
    exit,       \* what main returned: [rc, site, ev]; rc is -1 before
    \* tool execution
    spawned,    \* the commands the last neuronos_tool_execute ran through popen
    pending,    \* whether that call is still waiting and has not returned
    files       \* what write_file last wrote to each path

regVars == <<reg, granted, okNames, call, ret, result, invoked, grammar>>
scanVars == <<hw, scanned, scan, best, mop, tree>>
scoreVars == <<pair, pairScores, fma>>
detVars == <<plat, hwinfo>>
kernVars == <<kin, ks, blk, q8, out, kj>>
quantVars == <<qin, qres, qres2>>
gemvVars == <<gin, gdot, ggemv>>
cliVars == <<argv, env, exit>>
toolVars == <<spawned, pending, files>>
laterVars == <<quantVars, gemvVars, cliVars, toolVars>>
vars == <<regVars, scanVars, scoreVars, detVars, kernVars, laterVars>>

NULL == "<null>"

Min(a, b) == IF a <= b THEN a ELSE b

(***************************************************************************)
(* Bounds of the model                                                     *)
(***************************************************************************)
\* fresh non-filler registrations are tried only while count < FreeSlots
FreeSlots == 1
\* strlen of the long tool name the environment may register
LongNameLen == 300
LongDescLen == 500

(***************************************************************************)
(* Constants of the program                                                *)
(***************************************************************************)
NEURONOS_MAX_TOOLS == 64

\* capability bits; the header that defines them is not part of the sources
NEURONOS_CAP_FILESYSTEM == 1
NEURONOS_CAP_NETWORK == 2
NEURONOS_CAP_SHELL == 4

\* the C operator & on uint32_t, for the masks built from the three bits
RECURSIVE BitAnd(_, _)
BitAnd(a, b) ==
    IF a = 0 \/ b = 0 THEN 0
    ELSE (IF a % 2 = 1 /\ b % 2 = 1 THEN 1 ELSE 0) + 2 * BitAnd(a \div 2, b \div 2)

CapMasks == {0, NEURONOS_CAP_FILESYSTEM, NEURONOS_CAP_SHELL,
             NEURONOS_CAP_FILESYSTEM + NEURONOS_CAP_SHELL}

\* the masks an agent is run with: none, or the one the CLI passes
GrantedMasks == {0, NEURONOS_CAP_FILESYSTEM}

(***************************************************************************)
(* Descriptors                                                             *)
(***************************************************************************)
Desc(n, d, s, e, u, c) ==
    [name |-> n, description |-> d, args_schema_json |-> s,
     execute |-> e, user_data |-> u, required_caps |-> c]

\* a zeroed array slot (the registry is calloc'ed)
NullDesc == Desc(NULL, NULL, NULL, NULL, NULL, 0)

DescShell ==
    Desc("shell", "Execute a shell command and return its output.",
         "{\"type\":\"object\",\"properties\":{\"command\":{\"type\":\"string\",\"description\":\"The shell command to execute\"}},\"required\":[\"command\"]}",
         "tool_shell", NULL, NEURONOS_CAP_SHELL)

DescReadFile ==
    Desc("read_file", "Read the contents of a file (max 32KB).",
         "{\"type\":\"object\",\"properties\":{\"path\":{\"type\":\"string\",\"description\":\"File path to read\"}},\"required\":[\"path\"]}",
         "tool_read_file", NULL, NEURONOS_CAP_FILESYSTEM)

DescWriteFile ==
    Desc("write_file", "Write content to a file.",
         "{\"type\":\"object\",\"properties\":{\"path\":{\"type\":\"string\"},\"content\":{\"type\":\"string\"}},\"required\":[\"path\",\"content\"]}",
         "tool_write_file", NULL, NEURONOS_CAP_FILESYSTEM)

DescCalculate ==
    Desc("calculate", "Evaluate a mathematical expression (uses bc).",
         "{\"type\":\"object\",\"properties\":{\"expression\":{\"type\":\"string\",\"description\":\"Math expression, e.g. 2+2, sqrt(144)\"}},\"required\":[\"expression\"]}",
         "tool_calculate", NULL, 0)

(***************************************************************************)
(* struct neuronos_tool_reg and neuronos_tool_registry_create              *)
(***************************************************************************)
ToolIndex == 0 .. (NEURONOS_MAX_TOOLS - 1)

neuronos_tool_registry_create ==
    [tools |-> [i \in ToolIndex |-> NullDesc], count |-> 0]

\* the index of the first tool named n, or -1: the loop of lines 46 and 72
FindTool(r, n) ==
    LET hits == {i \in 0 .. (r.count - 1) : r.tools[i].name = n}
    IN  IF hits = {} THEN -1
        ELSE CHOOSE i \in hits : \A j \in hits : i <= j

(***************************************************************************)
(* neuronos_tool_register                                                  *)
(***************************************************************************)
\* Variants of neuronos_tool_register with one check left out
neuronos_tool_register_NoDuplicateCheck(r, desc) ==
    IF desc.name = NULL \/ desc.execute = NULL
    THEN [reg |-> r, ret |-> -1]
    ELSE IF r.count >= NEURONOS_MAX_TOOLS
    THEN [reg |-> r, ret |-> -1]
    ELSE [reg |-> [tools |-> [r.tools EXCEPT ![r.count] = desc],
                   count |-> r.count + 1],
          ret |-> 0]

neuronos_tool_register_NoExecutorCheck(r, desc) ==
    IF desc.name = NULL
    THEN [reg |-> r, ret |-> -1]
    ELSE IF r.count >= NEURONOS_MAX_TOOLS
    THEN [reg |-> r, ret |-> -1]
    ELSE IF \E i \in 0 .. (r.count - 1) : r.tools[i].name = desc.name
    THEN [reg |-> r, ret |-> -1]
    ELSE [reg |-> [tools |-> [r.tools EXCEPT ![r.count] = desc],
                   count |-> r.count + 1],
          ret |-> 0]

neuronos_tool_register(r, desc) ==
    IF desc.name = NULL \/ desc.execute = NULL
    THEN [reg |-> r, ret |-> -1]
    ELSE IF r.count >= NEURONOS_MAX_TOOLS
    THEN [reg |-> r, ret |-> -1]
    ELSE IF FindTool(r, desc.name) >= 0
    THEN [reg |-> r, ret |-> -1]
    ELSE [reg |-> [tools |-> [r.tools EXCEPT ![r.count] = desc],
                   count |-> r.count + 1],
          ret |-> 0]

(***************************************************************************)
(* neuronos_tool_register_defaults                                         *)
(***************************************************************************)
\* Variant of DefaultDescs that tests the FILESYSTEM bit for the shell tool
DefaultDescs_ShellOnFilesystem(allowed_caps) ==
    (IF BitAnd(allowed_caps, NEURONOS_CAP_FILESYSTEM) # 0
     THEN <<DescShell>> ELSE <<>>)
    \o (IF BitAnd(allowed_caps, NEURONOS_CAP_FILESYSTEM) # 0
        THEN <<DescReadFile, DescWriteFile>> ELSE <<>>)
    \o <<DescCalculate>>

\* the descriptors the function builds, in the order it registers them
DefaultDescs(allowed_caps) ==
    (IF BitAnd(allowed_caps, NEURONOS_CAP_SHELL) # 0
     THEN <<DescShell>> ELSE <<>>)
    \o (IF BitAnd(allowed_caps, NEURONOS_CAP_FILESYSTEM) # 0
        THEN <<DescReadFile, DescWriteFile>> ELSE <<>>)
    \o <<DescCalculate>>

\* if (neuronos_tool_register(reg, &desc) == 0) registered++;  for each of descs
RECURSIVE RegisterEach(_, _, _, _)
RegisterEach(r, descs, registered, added) ==
    IF descs = <<>>
    THEN [reg |-> r, ret |-> registered, added |-> added]
    ELSE LET one == neuronos_tool_register(r, Head(descs))
         IN  IF one.ret = 0
             THEN RegisterEach(one.reg, Tail(descs), registered + 1,
                               Append(added, Head(descs).name))
             ELSE RegisterEach(one.reg, Tail(descs), registered, added)

neuronos_tool_register_defaults(r, allowed_caps) ==
    RegisterEach(r, DefaultDescs(allowed_caps), 0, <<>>)

(***************************************************************************)
(* neuronos_tool_execute                                                   *)
(***************************************************************************)
ToolResult(s, o, e) == [success |-> s, output |-> o, error |-> e]

NoResult == ToolResult(FALSE, NULL, NULL)

Invocation(fn, args, user_data) ==
    [fn |-> fn, args |-> args, user_data |-> user_data]

(***************************************************************************)
(* The built-in tools                                                      *)
(*                                                                         *)
(* What a tool call can do is the set of its outcomes [result, popen,      *)
(* blocked, write]: result is the neuronos_tool_result_t it returns, popen *)
(* the command lines it ran through popen, blocked whether the call waits  *)
(* for something and has not returned, write the path and content         *)
(* write_file passed to fwrite.  What the commands answer and what a path  *)
(* of the file system holds is chosen among a few values; the path may be  *)
(* a regular file, a link to a device such as /dev/null, or a FIFO, so     *)
(* what write_file wrote to it is one of the contents it may hold later.   *)
(***************************************************************************)
Outcome(res, popen, blocked) ==
    [result |-> res, popen |-> popen, blocked |-> blocked, write |-> <<>>]
Returns(res) == Outcome(res, <<>>, FALSE)

\* a call that waits in fopen, fgets or pclose
Blocks(popen) ==
    Outcome([success |-> FALSE, output |-> NULL, error |-> NULL], popen, TRUE)

RECURSIVE Repeat(_, _)
Repeat(s, n) ==
    IF n = 0 THEN ""
    ELSE IF n % 2 = 1 THEN s \o Repeat(s, n - 1)
    ELSE Repeat(s \o s, n \div 2)

\* nothing written yet, and what was written after content went to path
NoFiles == [f \in {} |-> ""]
WriteFile(fs, path, content) ==
    [f \in DOMAIN fs \cup {path} |-> IF f = path THEN content ELSE fs[f]]

\* if (fsize > 32 * 1024) fsize = 32 * 1024
MaxRead == 32768

\* strstr(s, pat): the index from 1 of the first occurrence, 0 for NULL
Strstr(s, pat) ==
    LET ps == {i \in 1 .. (Len(s) - Len(pat) + 1) : SubSeq(s, i, i + Len(pat) - 1) = pat}
    IN  IF ps = {} THEN 0 ELSE CHOOSE i \in ps : \A k \in ps : i <= k

\* strchr(s + from - 1, c): the index of the first c at or after from
Strchr(s, from, c) ==
    LET ps == {i \in from .. Len(s) : SubSeq(s, i, i) = c}
    IN  IF ps = {} THEN 0 ELSE CHOOSE i \in ps : \A k \in ps : i <= k

\* while (*end && *end != '"') { if (*end == '\\') end++; if (*end) end++; }
RECURSIVE ScanQuoted(_, _)
ScanQuoted(s, i) ==
    IF i > Len(s) \/ SubSeq(s, i, i) = "\"" THEN i
    ELSE IF SubSeq(s, i, i) = "\\"
    THEN IF i + 1 > Len(s) THEN i + 1 ELSE ScanQuoted(s, i + 2)
    ELSE ScanQuoted(s, i + 1)

\* what a command prints, the wait status pclose reports for it (exit code
\* times 256), and what a file holds
ProcessOutputs == {"", "out\n"}
WaitStatuses == {0, 256}
FileContents == {"", "data", Repeat("z", MaxRead + 1)}

Failed(msg) == Returns([success |-> FALSE, output |-> NULL, error |-> msg])

\* Variant of tool_shell that reports a failed command without an error text
tool_shell_NoErrorText(args_json) ==
    LET key == Strstr(args_json, "\"command\"")
        quote == Strchr(args_json, key + 9, "\"")
        cmd_start == quote + 1
        cmd_end == ScanQuoted(args_json, cmd_start)
        command == SubSeq(args_json, cmd_start, cmd_end - 1)
    IN  IF key = 0 THEN {Failed("Missing 'command' argument")}
        ELSE IF quote = 0 THEN {Failed("Invalid 'command' format")}
        ELSE {Failed("Failed to execute command")}
             \cup {Blocks(<<command>>)}
             \cup {Outcome([success |-> status = 0, output |-> o, error |-> NULL],
                           <<command>>, FALSE) :
                     o \in ProcessOutputs, status \in WaitStatuses}

tool_shell(args_json) ==
    LET key == Strstr(args_json, "\"command\"")
        quote == Strchr(args_json, key + 9, "\"")
        cmd_start == quote + 1
        cmd_end == ScanQuoted(args_json, cmd_start)
        command == SubSeq(args_json, cmd_start, cmd_end - 1)
    IN  IF key = 0 THEN {Failed("Missing 'command' argument")}
        ELSE IF quote = 0 THEN {Failed("Invalid 'command' format")}
        ELSE \* popen fails
             {Failed("Failed to execute command")}
             \* the command never closes its output or never exits
             \cup {Blocks(<<command>>)}
             \cup {Outcome([success |-> status = 0, output |-> o,
                            error |-> IF status = 0 THEN NULL
                                      ELSE "Command exited with status "
                                           \o ToString(status)],
                           <<command>>, FALSE) :
                     o \in ProcessOutputs, status \in WaitStatuses}

tool_read_file(args_json) ==
    LET key == Strstr(args_json, "\"path\"")
        quote == Strchr(args_json, key + 6, "\"")
        path_end == Strchr(args_json, quote + 1, "\"")
        path == SubSeq(args_json, quote + 1, path_end - 1)
        Read(c) == Returns([success |-> TRUE,
                            output |-> SubSeq(c, 1, Min(Len(c), MaxRead)),
                            error |-> NULL])
    IN  IF key = 0 THEN {Failed("Missing 'path' argument")}
        ELSE IF quote = 0 \/ path_end = 0 THEN {Failed("Invalid 'path'")}
        ELSE \* fopen fails; fopen waits for the writer of a FIFO; the file
             \* holds what write_file wrote to it or something else
             {Failed("File not found or cannot read"), Blocks(<<>>)}
             \cup {Read(c) : c \in FileContents}
             \cup {Read(files[f]) : f \in DOMAIN files \cap {path}}

tool_write_file(args_json) ==
    LET key == Strstr(args_json, "\"path\"")
        quote == Strchr(args_json, key + 6, "\"")
        path_end == Strchr(args_json, quote + 1, "\"")
        cnt == Strstr(args_json, "\"content\"")
        cnt_quote == Strchr(args_json, cnt + 9, "\"")
    IN  IF key = 0 THEN {Failed("Missing 'path'")}
        ELSE IF quote = 0 \/ path_end = 0 THEN {Failed("Invalid 'path'")}
        ELSE IF cnt = 0 THEN {Failed("Missing 'content'")}
        ELSE IF cnt_quote = 0 THEN {Failed("Invalid 'content'")}
        ELSE LET path == SubSeq(args_json, quote + 1, path_end - 1)
                 cnt_end == ScanQuoted(args_json, cnt_quote + 1)
                 content == SubSeq(args_json, cnt_quote + 1, cnt_end - 1)
                 written ==
                     [Returns([success |-> TRUE,
                               output |-> "File written successfully",
                               error |-> NULL])
                        EXCEPT !.write = <<path, content>>]
             IN  \* fopen fails; fopen waits for the reader of a FIFO; the
                 \* file is opened, and the results of fwrite and fclose
                 \* are not looked at
                 {Failed("Cannot write file"), Blocks(<<>>), written}

\* snprintf(cmd, sizeof(cmd), "echo '%.*s' | bc -l 2>&1", ...); popen(cmd, "r")
tool_calculate(args_json) ==
    LET key == Strstr(args_json, "\"expression\"")
        quote == Strchr(args_json, key + 12, "\"")
        expr_end == Strchr(args_json, quote + 1, "\"")
        expr == SubSeq(args_json, quote + 1, expr_end - 1)
        full == "echo '" \o expr \o "' | bc -l 2>&1"
        cmd == SubSeq(full, 1, Min(Len(full), 511))
    IN  IF key = 0 THEN {Failed("Missing 'expression' argument")}
        ELSE IF quote = 0 \/ expr_end = 0 THEN {Failed("Invalid 'expression'")}
        ELSE {Failed("bc not available")}
             \cup {Blocks(<<cmd>>)}
             \* the first line of what the command printed, "0" without one
             \cup {Outcome([success |-> TRUE, output |-> o, error |-> NULL],
                           <<cmd>>, FALSE) :
                     o \in {"0", "2"}}

\* What an executor may do.  exec_a, exec_b and exec_t are callbacks of the
\* caller: exec_a and exec_t echo their arguments, exec_b fails.
ExecutorOutcomes(fn, args, user_data) ==
    CASE fn \in {"exec_a", "exec_t"} -> {Returns(ToolResult(TRUE, args, NULL))}
      [] fn = "exec_b" -> {Returns(ToolResult(FALSE, NULL, "failed"))}
      [] fn = "tool_shell" -> tool_shell(args)
      [] fn = "tool_read_file" -> tool_read_file(args)
      [] fn = "tool_write_file" -> tool_write_file(args)
      [] fn = "tool_calculate" -> tool_calculate(args)

\* One call of neuronos_tool_execute: what it returned, the executor
\* invocations made on the way, the commands run and whether it hangs.
Executed(res, inv, o) ==
    [result |-> res, invoked |-> inv, popen |-> o.popen, blocked |-> o.blocked,
     write |-> o.write]

\* Variant of neuronos_tool_execute that passes args_json on as it is
neuronos_tool_execute_RawArgs(r, tool_name, args_json) ==
    IF tool_name = NULL
    THEN {Executed(ToolResult(FALSE, NULL, "Invalid arguments"), <<>>, Returns(NoResult))}
    ELSE LET i == FindTool(r, tool_name)
         IN  IF i >= 0
             THEN LET t == r.tools[i]
                  IN  {Executed(o.result,
                                <<Invocation(t.execute, args_json, t.user_data)>>,
                                o) :
                          o \in ExecutorOutcomes(t.execute, args_json, t.user_data)}
             ELSE {Executed(ToolResult(FALSE, NULL, "Tool not found"), <<>>, Returns(NoResult))}

\* The possible outcomes of one call.
neuronos_tool_execute(r, tool_name, args_json) ==
    IF tool_name = NULL
    THEN {Executed(ToolResult(FALSE, NULL, "Invalid arguments"), <<>>, Returns(NoResult))}
    ELSE LET i == FindTool(r, tool_name)
         IN  IF i >= 0
             THEN LET t == r.tools[i]
                      a == IF args_json # NULL THEN args_json ELSE "{}"
                  IN  {Executed(o.result, <<Invocation(t.execute, a, t.user_data)>>,
                                o) :
                          o \in ExecutorOutcomes(t.execute, a, t.user_data)}
             ELSE {Executed(ToolResult(FALSE, NULL, "Tool not found"), <<>>, Returns(NoResult))}

(***************************************************************************)
(* neuronos_tool_grammar_names                                             *)
(***************************************************************************)
\* A buffer being filled: buf is the C string it holds, len the running
\* length the code keeps, cap the allocated size, oob whether a write went
\* outside the allocation.
StrBuf(b, l, c, o) == [buf |-> b, len |-> l, cap |-> c, oob |-> o]

\* len += (size_t)snprintf(buf + len, cap - len, "%s", s)
\* snprintf stores at most size-1 characters and returns strlen(s).  With
\* len > cap the size_t difference cap - len wraps around and the write
\* starts beyond the end of the allocation.
SnprintfAppend(b, s) ==
    IF b.oob THEN b
    ELSE IF b.len > b.cap THEN [b EXCEPT !.oob = TRUE]
    ELSE LET size == b.cap - b.len
             n == IF size = 0 THEN 0 ELSE Min(Len(s), size - 1)
         IN  [b EXCEPT !.buf = IF size = 0 THEN b.buf
                                ELSE b.buf \o SubSeq(s, 1, n),
                       !.len = b.len + Len(s)]

\* the body of the for loop of neuronos_tool_grammar_names, from tool i on;
\* after a write outside the allocation no later turn changes b
RECURSIVE GrammarLoop(_, _, _)
GrammarLoop(r, i, b) ==
    IF i >= r.count \/ b.oob THEN b
    ELSE LET b1 == IF i > 0 THEN SnprintfAppend(b, " | ") ELSE b
             b2 == SnprintfAppend(b1, "\"\\\"")
             b3 == SnprintfAppend(b2, r.tools[i].name)
             b4 == SnprintfAppend(b3, "\\\"\"")
         IN  GrammarLoop(r, i + 1, b4)

neuronos_tool_grammar_names(r) ==
    IF r.count = 0
    THEN StrBuf("tool-name ::= \"\\\"noop\\\"\"", 0, 0, FALSE)
    ELSE LET cap == 256 + r.count * 40
         IN  GrammarLoop(r, 0, SnprintfAppend(StrBuf("", 0, cap, FALSE),
                                              "tool-name ::= "))

(***************************************************************************)
(* neuronos_tool_prompt_description                                        *)
(***************************************************************************)
\* the body of the for loop of neuronos_tool_prompt_description, from tool i
\* on; after a write outside the allocation no later turn changes b
RECURSIVE PromptLoop(_, _, _)
PromptLoop(r, i, b) ==
    IF i >= r.count \/ b.oob THEN b
    ELSE LET t == r.tools[i]
             b1 == SnprintfAppend(b, "- " \o t.name \o ": "
                                     \o (IF t.description # NULL THEN t.description
                                         ELSE "No description"))
             b2 == IF t.args_schema_json # NULL
                   THEN SnprintfAppend(b1, " Args schema: " \o t.args_schema_json)
                   ELSE b1
             b3 == SnprintfAppend(b2, "\n")
         IN  PromptLoop(r, i + 1, b3)

neuronos_tool_prompt_description(r) ==
    IF r.count = 0
    THEN StrBuf("No tools available.\n", 0, 0, FALSE)
    ELSE LET cap == 512 + r.count * 256
         IN  PromptLoop(r, 0, SnprintfAppend(StrBuf("", 0, cap, FALSE),
                                             "Available tools:\n"))

(***************************************************************************)
(* The callers of the registry: the descriptors and names they pass        *)
(***************************************************************************)
Digit == <<"0", "1", "2", "3", "4", "5", "6", "7", "8", "9">>

\* "t01", "t02", ...: tools registered one after the other to fill the registry
FillerName(k) == "t" \o Digit[(k \div 10) + 1] \o Digit[(k % 10) + 1]

LongName == Repeat("x", LongNameLen)

DescA == Desc("a", "First a.", NULL, "exec_a", "ud_a", 0)
DescA2 == Desc("a", "Second a.", "{}", "exec_b", "ud_b", NEURONOS_CAP_SHELL)
DescLong == Desc(LongName, Repeat("d", LongDescLen), NULL, "exec_a", NULL, 0)
DescShell2 == Desc("shell", "Custom shell.", NULL, "exec_b", "ud_b",
                   NEURONOS_CAP_FILESYSTEM)
DescNoName == Desc(NULL, "No name.", NULL, "exec_a", NULL, 0)
DescNoExec == Desc("b", "No executor.", NULL, NULL, NULL, 0)
Filler(k) == Desc(FillerName(k), "Filler.", NULL, "exec_t", NULL, 0)

Pool == {DescA, DescA2, DescLong, DescShell2}

NextFiller(r) ==
    1 + Cardinality({i \in 0 .. (r.count - 1) : r.tools[i].execute = "exec_t"})

\* The registry is exercised until the callers have registered a second
\* filler and again when it is full or about to be; in between the callers
\* only go on filling it.
Exercised(r) ==
    NextFiller(r) <= 2 \/ r.count >= NEURONOS_MAX_TOOLS - 2

\* The descriptors a caller passes in a state: the next filler, and while
\* the registry is exercised the invalid descriptors and those of the pool,
\* the latter as a first registration only below FreeSlots tools.
RegisterInputs(r) ==
    {Filler(NextFiller(r))}
    \cup (IF Exercised(r) THEN {DescNoName, DescNoExec} ELSE {})
    \cup {d \in Pool : /\ Exercised(r)
                       /\ FindTool(r, d.name) >= 0 \/ r.count < FreeSlots}

ExecuteNames ==
    {NULL, "nosuch", "a", "shell", "calculate", FillerName(1)}

ExecuteArgs == {NULL, "{\"x\":1}"}

\* The calls an agent makes on the registry of the built-in tools: every
\* tool, with arguments that lack the key, hold a value that is no string,
\* end before the closing quote, or are as the tool expects.
ToolNames ==
    {NULL, "nosuch", "shell", "read_file", "write_file", "calculate"}

ToolArgs ==
    {NULL, "{}",
     "{\"command\": \"ls\"}", "{\"command\": \"while :; do :; done\"}",
     "{\"command\": 5}", "{\"command\": \"echo a\\\"b",
     "{\"path\": \"/tmp/f\"}", "{\"path\": \"/tmp/f",
     "{\"path\": \"/tmp/f\", \"content\": \"hi\"}",
     "{\"path\": \"/tmp/f\", \"content\": 5}",
     "{\"expression\": \"1+1\"}", "{\"expression\": \"1+1",
     "{\"expression\": \"1'; rm -rf ~; echo '2\"}"}

Call(op, desc, name, args, caps) ==
    [op |-> op, desc |-> desc, name |-> name, args |-> args, caps |-> caps]

NoGrammar == [buf |-> NULL, oob |-> FALSE]

(***************************************************************************)
(* Tool registry: initial state and actions                                *)
(***************************************************************************)
ToolInit ==
    /\ spawned = <<>>
    /\ pending = FALSE
    /\ files = NoFiles

RegInit(masks) ==
    /\ reg = neuronos_tool_registry_create
    /\ granted \in masks
    /\ okNames = <<>>
    /\ call = Call("create", NullDesc, NULL, NULL, 0)
    /\ ret = 0
    /\ result = NoResult
    /\ invoked = <<>>
    /\ grammar = NoGrammar

Register(d) ==
    LET o == neuronos_tool_register(reg, d)
    IN  /\ ~pending
        /\ reg' = o.reg
        /\ ret' = o.ret
        /\ okNames' = IF o.ret = 0 THEN Append(okNames, d.name) ELSE okNames
        /\ call' = Call("register", d, NULL, NULL, 0)
        /\ result' = NoResult
        /\ invoked' = <<>>
        /\ grammar' = NoGrammar
        /\ UNCHANGED <<granted, scanVars, scoreVars, detVars, kernVars, laterVars>>

RegisterDefaults(allowed_caps) ==
    LET o == neuronos_tool_register_defaults(reg, allowed_caps)
    IN  /\ ~pending
        /\ reg.count < FreeSlots \/ reg.count >= NEURONOS_MAX_TOOLS - 2
        /\ reg' = o.reg
        /\ ret' = o.ret
        /\ okNames' = okNames \o o.added
        /\ call' = Call("register_defaults", NullDesc, NULL, NULL, allowed_caps)
        /\ result' = NoResult
        /\ invoked' = <<>>
        /\ grammar' = NoGrammar
        /\ UNCHANGED <<granted, scanVars, scoreVars, detVars, kernVars, laterVars>>

\* One call of neuronos_tool_execute by the agent.  A call that finds what
\* it needs at once returns in this step; one that waits (o.blocked) leaves
\* pending set and returns in Return, if ever.
Execute(tool_name, args_json) ==
    \E o \in neuronos_tool_execute(reg, tool_name, args_json) :
        /\ Exercised(reg)
        /\ ~pending
        /\ result' = IF o.blocked THEN NoResult ELSE o.result
        /\ invoked' = o.invoked
        /\ spawned' = o.popen
        /\ pending' = o.blocked
        /\ files' = IF o.write # <<>> THEN WriteFile(files, o.write[1], o.write[2])
                    ELSE files
        /\ call' = Call("execute", NullDesc, tool_name, args_json, 0)
        /\ ret' = 0
        /\ grammar' = NoGrammar
        /\ UNCHANGED <<reg, granted, okNames, scanVars, scoreVars, detVars, kernVars,
                       quantVars, gemvVars, cliVars>>

\* The call that waits returns: the child it started with popen has closed
\* its output and exited (fgets reads end of file, pclose returns), or the
\* other end of the FIFO was opened and fopen returns.  The caller is the
\* only thread, so nothing else happens while it waits.
Return ==
    \E o \in neuronos_tool_execute(reg, call.name, call.args) :
        /\ pending
        /\ ~o.blocked
        /\ o.popen = spawned
        /\ result' = o.result
        /\ pending' = FALSE
        /\ files' = IF o.write # <<>> THEN WriteFile(files, o.write[1], o.write[2])
                    ELSE files
        /\ UNCHANGED <<reg, granted, okNames, call, ret, invoked, grammar, spawned,
                       scanVars, scoreVars, detVars, kernVars,
                       quantVars, gemvVars, cliVars>>

\* A write outside the allocation is undefined behaviour: the call may still
\* return the buffer it filled, or the process may crash.
GrammarOutcomes(b) ==
    IF b.oob
    THEN {[buf |-> b.buf, oob |-> TRUE], [buf |-> "<crash>", oob |-> TRUE]}
    ELSE {[buf |-> b.buf, oob |-> FALSE]}

GrammarNames ==
    /\ Exercised(reg)
    /\ ~pending
    /\ grammar' \in GrammarOutcomes(neuronos_tool_grammar_names(reg))
    /\ call' = Call("grammar_names", NullDesc, NULL, NULL, 0)
    /\ ret' = 0
    /\ result' = NoResult
    /\ invoked' = <<>>
    /\ UNCHANGED <<reg, granted, okNames, scanVars, scoreVars, detVars, kernVars, laterVars>>

\* The buffer the call returns is kept in grammar, as for the grammar rule.
PromptDescription ==
    /\ Exercised(reg)
    /\ ~pending
    /\ grammar' \in GrammarOutcomes(neuronos_tool_prompt_description(reg))
    /\ call' = Call("prompt_description", NullDesc, NULL, NULL, 0)
    /\ ret' = 0
    /\ result' = NoResult
    /\ invoked' = <<>>
    /\ UNCHANGED <<reg, granted, okNames, scanVars, scoreVars, detVars, kernVars, laterVars>>

(***************************************************************************)
(* Model registry: estimates and score_model                               *)
(*                                                                         *)
(* Sizes are in MB as the code keeps them.  n_params_est is kept in units  *)
(* of 10^6 parameters: the code only ever divides it by 10^9 (score_model) *)
(* or by 10^6 (printing).  A score is the float the code computes, each    *)
(* operation rounded to 24 significant bits, ties to even.  A score that   *)
(* fits lies between 1010 and 1190 and is kept as num/16384: floats have a *)
(* spacing of 2^-14 below 1024 and of 2^-13 from 1024 on.  -1 is -1/1;     *)
(* NaN, the value of 0/0, is 0/0 and +infinity is 1/0.                     *)
(***************************************************************************)
MAX_SCAN_MODELS == 128

\* sizeof(e->name), from the header that is not part of the sources
SizeofName == 128

\* Variant of estimate_ram_needed without the 30% overhead
estimate_ram_needed_NoOverhead(file_size_mb_val) ==
    file_size_mb_val + 100

\* file_size_mb + (file_size_mb * 30 / 100) + 100
estimate_ram_needed(file_size_mb_val) ==
    file_size_mb_val + ((file_size_mb_val * 30) \div 100) + 100

\* file_size_mb * 1024 * 1024 / 35 * 100, in units of 10^6:
\* floor(floor(mb * 2^20 / 35) * 100 / 10^6) = floor(mb * 65536 / 21875)
estimate_params(file_size_mb_val) ==
    (file_size_mb_val * 65536) \div 21875

\* strstr(s, sub) != NULL
Contains(s, sub) ==
    \E i \in 1 .. (Len(s) - Len(sub) + 1) : SubSeq(s, i, i + Len(sub) - 1) = sub

Score(n, d) == [num |-> n, den |-> d]

ScoreUnit == 16384
NaN == Score(0, 0)

\* a > b for two scores; false when either is NaN
ScoreGT(a, b) ==
    /\ a # NaN
    /\ b # NaN
    /\ IF b.den = 0 THEN FALSE
       ELSE IF a.den = 0 THEN TRUE
       ELSE IF a.den = b.den THEN a.num > b.num
       ELSE a.num * b.den > b.num * a.den

\* (float)i for an integer i: the nearest float, of 24 significant bits,
\* ties to the even one
F32(i) ==
    LET a == IF i < 0 THEN -i ELSE i
        k == IF a < 2 ^ 24 THEN 0
             ELSE CHOOSE e \in 1 .. 7 :
                    a >= 2 ^ (23 + e) /\ (e = 7 \/ a < 2 ^ (24 + e))
        m == 2 ^ k
        q == a \div m
        r == a % m
        up == 2 * r > m \/ (2 * r = m /\ q % 2 = 1)
        v == (IF up THEN q + 1 ELSE q) * m
    IN  IF i < 0 THEN -v ELSE v

\* n / 2^s rounded to the nearest integer, ties to even
RoundShift(n, s) ==
    IF s > 30 THEN 0
    ELSE LET m == 2 ^ s
             q == n \div m
             r == n % m
         IN  IF 2 * r > m \/ (2 * r = m /\ q % 2 = 1) THEN q + 1 ELSE q

\* A float between 0 and 64 is kept as [man, exp]: the value man * 2^-exp
\* with 2^23 <= man <= 2^24, or man = 0.  The exact product inside a fused
\* multiply-add is kept in the same way, with man up to 50 * 2^24.
Float(man, exp) == [man |-> man, exp |-> exp]

\* the least k with a * 2^k >= b
RECURSIVE Normalize(_, _, _)
Normalize(a, b, k) ==
    IF a >= b THEN [a |-> a, k |-> k] ELSE Normalize(2 * a, b, k + 1)

\* n further bits of the quotient q with remainder r of a division by b
RECURSIVE DivBits(_, _, _, _)
DivBits(q, r, b, n) ==
    IF n = 0 THEN [q |-> q, r |-> r]
    ELSE IF 2 * r >= b THEN DivBits(2 * q + 1, 2 * r - b, b, n - 1)
    ELSE DivBits(2 * q, 2 * r, b, n - 1)

\* a / b in float arithmetic for floats 0 <= a <= b, b > 0 with integer values
FDiv(a, b) ==
    IF a = 0 THEN Float(0, 0)
    ELSE LET nz == Normalize(a, b, 0)
             d == DivBits(1, nz.a - b, b, 23)
             up == 2 * d.r > b \/ (2 * d.r = b /\ d.q % 2 = 1)
         IN  Float(IF up THEN d.q + 1 ELSE d.q, 23 + nz.k)

\* headroom * 50.0f
FMul50(h) ==
    IF h.man = 0 THEN h
    ELSE LET n == h.man * 50
             s == IF n < 2 ^ 29 THEN 5 ELSE 6
         IN  Float(RoundShift(n, s), h.exp - s)

\* score += p for an integer score from 1010 to 1100 and 0 <= p <= 50: the
\* sum, rounded once, in units of 2^-14
FAdd(score, p) ==
    LET d == p.exp - 14
        whole == IF d > 30 THEN 0 ELSE p.man \div (2 ^ d)
    IN  IF p.man = 0 THEN score * ScoreUnit
        ELSE IF (score * ScoreUnit) + whole >= 1024 * ScoreUnit
        THEN (score * ScoreUnit) + 2 * RoundShift(p.man, d + 1)
        ELSE (score * ScoreUnit) + RoundShift(p.man, d)

\* score += k for a score v in units of 2^-14 and a bonus k
FAddBonus(v, k) ==
    LET e == v + k * ScoreUnit
    IN  IF e >= 1024 * ScoreUnit /\ e % 2 = 1
        THEN IF ((e - 1) \div 2) % 2 = 0 THEN e - 1 ELSE e + 1
        ELSE e

ScoreEQ(a, b) == ~ScoreGT(a, b) /\ ~ScoreGT(b, a)

\* Variant of the quality tier without the top tier
QualityTier_NoTopTier(params_b) ==
    IF params_b >= 4 THEN 80
    ELSE IF params_b >= 2 THEN 60
    ELSE IF params_b >= 1 THEN 30
    ELSE 10

\* the 100 / 80 / 60 / 30 / 10 of the quality tier
QualityTier(params_b) ==
    IF params_b >= 8 THEN 100
    ELSE IF params_b >= 4 THEN 80
    ELSE IF params_b >= 2 THEN 60
    ELSE IF params_b >= 1 THEN 30
    ELSE 10

FormatBonus(name) ==
    IF \/ Contains(name, "i2_s") \/ Contains(name, "I2_S")
       \/ Contains(name, "1.58")
       \/ Contains(name, "bitnet") \/ Contains(name, "BitNet")
    THEN 25 ELSE 0

InstructBonus(name) ==
    IF \/ Contains(name, "nstruct")
       \/ Contains(name, "chat") \/ Contains(name, "Chat")
    THEN 15 ELSE 0

\* the statements of score_model after the hard constraint, for the
\* numerator room >= 0 of the headroom.  With a budget of 0 the headroom is
\* 0/0 or room/0, and the score NaN or +infinity.  score += headroom * 50.0f
\* rounds the product and then the sum, or, in a build that contracts the
\* statement into a fused multiply-add, the sum of the exact product only.
ScoreOfFit(entry, hwi, room) ==
    IF hwi.model_budget_mb = 0 THEN (IF room = 0 THEN NaN ELSE Score(1, 0))
    ELSE LET tier == 1000 + QualityTier(entry.n_params_est \div 1000)
             headroom == FDiv(F32(room), F32(hwi.model_budget_mb))
             v == IF fma THEN FAdd(tier, Float(headroom.man * 50, headroom.exp))
                  ELSE FAdd(tier, FMul50(headroom))
             f == IF FormatBonus(entry.name) # 0
                  THEN FAddBonus(v, FormatBonus(entry.name)) ELSE v
             i == IF InstructBonus(entry.name) # 0
                  THEN FAddBonus(f, InstructBonus(entry.name)) ELSE f
         IN  Score(i, ScoreUnit)

\* Variant of score_model whose headroom term grows with est_ram_mb
score_model_HeadroomInverted(entry, hwi) ==
    IF entry.est_ram_mb > hwi.model_budget_mb
    THEN Score(-1, 1)
    ELSE ScoreOfFit(entry, hwi, entry.est_ram_mb)

\* Variant of score_model that scores an entry that does not fit as one that
\* fills the budget
score_model_NoHardConstraint(entry, hwi) ==
    IF entry.est_ram_mb > hwi.model_budget_mb
    THEN ScoreOfFit(entry, hwi, 0)
    ELSE ScoreOfFit(entry, hwi, hwi.model_budget_mb - entry.est_ram_mb)

\* score = 1000 + tier + (budget - est_ram) / budget * 50 + bonuses in float
\* arithmetic; -1 when the entry does not fit
score_model(entry, hwi) ==
    IF entry.est_ram_mb > hwi.model_budget_mb
    THEN Score(-1, 1)
    ELSE ScoreOfFit(entry, hwi, hwi.model_budget_mb - entry.est_ram_mb)

(***************************************************************************)
(* Model registry: scan_dir_recursive and neuronos_model_scan              *)
(*                                                                         *)
(* A directory is the sequence of its entries in readdir order; an entry   *)
(* is [d_name, type, size_mb, sub, link]: type is what stat reports for    *)
(* the name ("reg", "dir" or "other"), size_mb is st_size / 2^20, sub the  *)
(* directory behind a "dir" entry.  link says that the name is a symbolic  *)
(* link; stat follows it, so type, size_mb and sub are those of its        *)
(* target.                                                                 *)
(***************************************************************************)
DirEnt(n, t, sz, sub) ==
    [d_name |-> n, type |-> t, size_mb |-> sz, sub |-> sub, link |-> FALSE]

\* a symbolic link named n to target
Symlink(n, target) == [target EXCEPT !.d_name = n, !.link = TRUE]

\* char full_path[1024]
SizeofFullPath == 1024

\* snprintf(buf, size, "%s", str): what buf holds afterwards
Snprintf(str, size) == SubSeq(str, 1, Min(Len(str), size - 1))

NoEnt == [d_name |-> NULL, type |-> "enoent", size_mb |-> 0, sub |-> <<>>, link |-> FALSE]

\* stat(full_path) for the entry ent of the directory dir that dir_path names.
\* A full_path that snprintf cut short names the directory itself (all of the
\* entry's name cut off), another entry of it (a prefix of the name left), or
\* nothing.
stat(full_path, dir_path, dir, ent) ==
    IF full_path = dir_path \o "/" \o ent.d_name THEN ent
    ELSE IF full_path = dir_path \/ full_path = dir_path \o "/"
    THEN DirEnt("", "dir", 0, dir)
    ELSE LET rest == SubSeq(full_path, Len(dir_path) + 2, Len(full_path))
             named == {i \in 1 .. Len(dir) : dir[i].d_name = rest}
         IN  IF Len(full_path) > Len(dir_path) + 1 /\ named # {}
             THEN dir[CHOOSE i \in named : TRUE]
             ELSE NoEnt

\* The resources of the process: nofile directory streams can be open at a
\* time (opendir fails beyond that), stack frames of scan_dir_recursive fit on
\* the stack (the process dies beyond that).
Rlimit(nofile, stack) == [nofile |-> nofile, stack |-> stack]

\* what the walk has done so far: the entries written, and whether the process
\* has died
Walk(es, crashed) == [entries |-> es, crashed |-> crashed]


\* strrchr(s, c): the index from 1 of the last c of s, 0 for NULL
Strrchr(s, c) ==
    LET at == {i \in 1 .. Len(s) : SubSeq(s, i, i) = c}
    IN  IF at = {} THEN 0 ELSE CHOOSE i \in at : \A j \in at : j <= i

\* the index of the last "/" of path, without one that of the last "\\",
\* 0 when there is neither
LastSlash(path) ==
    IF Strrchr(path, "/") # 0 THEN Strrchr(path, "/") ELSE Strrchr(path, "\\")

EndsWithGguf(s) ==
    Len(s) > 5 /\ SubSeq(s, Len(s) - 4, Len(s)) = ".gguf"

extract_model_name(path, name_len) ==
    LET base == SubSeq(path, LastSlash(path) + 1, Len(path))
        len == IF EndsWithGguf(base) THEN Len(base) - 5 ELSE Len(base)
    IN  SubSeq(base, 1, IF len >= name_len THEN name_len - 1 ELSE len)

\* the entry scan_dir_recursive fills in for a .gguf file
ModelEntry(full_path, size_mb, hwi) ==
    LET e == [path |-> full_path,
              name |-> extract_model_name(full_path, SizeofName),
              file_size_mb |-> size_mb,
              est_ram_mb |-> estimate_ram_needed(size_mb),
              n_params_est |-> estimate_params(size_mb),
              fits_in_ram |-> estimate_ram_needed(size_mb) <= hwi.model_budget_mb,
              score |-> Score(0, 1)]
    IN  [e EXCEPT !.score = score_model(e, hwi)]

\* The while loop of scan_dir_recursive over the entries k, k+1, ... of dir,
\* in the frame number depth; w.entries holds the current_count entries
\* written so far.
RECURSIVE scan_dir_recursive(_, _, _, _, _, _, _, _)
scan_dir_recursive(dir_path, dir, k, hwi, w, max_entries, depth, rl) ==
    IF w.crashed \/ k > Len(dir) \/ Len(w.entries) >= max_entries
    THEN w
    ELSE LET ent == dir[k]
             full_path == Snprintf(dir_path \o "/" \o ent.d_name, SizeofFullPath)
             st == stat(full_path, dir_path, dir, ent)
             after ==
                 IF SubSeq(ent.d_name, 1, 1) = "."
                 THEN w
                 ELSE IF st.type = "dir"
                 THEN IF depth + 1 > rl.stack
                      THEN Walk(w.entries, TRUE)
                      ELSE IF depth + 1 > rl.nofile
                      THEN w
                      ELSE scan_dir_recursive(full_path, st.sub, 1, hwi, w,
                                              max_entries, depth + 1, rl)
                 ELSE IF st.type = "reg" /\ EndsWithGguf(ent.d_name)
                 THEN Walk(Append(w.entries, ModelEntry(full_path, st.size_mb, hwi)),
                           FALSE)
                 ELSE w
         IN  scan_dir_recursive(dir_path, dir, k + 1, hwi, after, max_entries,
                                depth, rl)

\* Variant of compare_models_desc that orders by ascending score
compare_models_desc_Ascending(ma, mb) ==
    IF ScoreGT(ma.score, mb.score) THEN 1
    ELSE IF ScoreGT(mb.score, ma.score) THEN -1
    ELSE 0

\* compare_models_desc(a, b): 1 when b scores more, -1 when less, else 0
compare_models_desc(ma, mb) ==
    IF ScoreGT(mb.score, ma.score) THEN 1
    ELSE IF ScoreGT(ma.score, mb.score) THEN -1
    ELSE 0

\* all orders of the elements of a sequence
RECURSIVE Orders(_)
Orders(seq) ==
    IF seq = <<>> THEN {<<>>}
    ELSE UNION {{<<seq[i]>> \o rest :
                    rest \in Orders(SubSeq(seq, 1, i - 1)
                                    \o SubSeq(seq, i + 1, Len(seq)))} :
                i \in 1 .. Len(seq)}

\* qsort with compare_models_desc: some order of the entries in which no
\* entry comes before one the comparison puts first.  The C library leaves
\* the order of entries that compare equal unspecified.
qsort(entries) ==
    {o \in Orders(entries) :
        \A i, j \in 1 .. Len(o) : i < j => compare_models_desc(o[i], o[j]) <= 0}

ScanResult(es, isnull, n) == [entries |-> es, null |-> isnull, out_count |-> n]

\* the traversal neuronos_model_scan starts
ScanWalk(dir_path, dir, hwi, rl) ==
    scan_dir_recursive(dir_path, dir, 1, hwi, Walk(<<>>, FALSE), MAX_SCAN_MODELS, 1, rl)

\* the possible results of neuronos_model_scan on the directory dir, when the
\* traversal comes back
neuronos_model_scan(dir_path, dir, hwi, rl) ==
    LET found == ScanWalk(dir_path, dir, hwi, rl).entries
    IN  IF Len(found) = 0
        THEN {ScanResult(<<>>, TRUE, 0)}
        ELSE {ScanResult(o, FALSE, Len(found)) : o \in qsort(found)}

\* Variant of neuronos_model_select_best that keeps the last match
neuronos_model_select_best_Last(entries, isnull, count) ==
    IF isnull \/ count = 0 THEN 0
    ELSE LET ok == {i \in 1 .. count :
                       entries[i].fits_in_ram /\ entries[i].score.num > 0}
         IN  IF ok = {} THEN 0 ELSE CHOOSE i \in ok : \A j \in ok : j <= i

\* neuronos_model_select_best: the position (from 1) of the entry returned,
\* 0 for NULL
neuronos_model_select_best(entries, isnull, count) ==
    IF isnull \/ count = 0 THEN 0
    ELSE LET ok == {i \in 1 .. count :
                       entries[i].fits_in_ram /\ entries[i].score.num > 0}
         IN  IF ok = {} THEN 0 ELSE CHOOSE i \in ok : \A j \in ok : i <= j

(***************************************************************************)
(* Model registry: inputs, initial state and actions                       *)
(***************************************************************************)
\* the longest directory scanned, in entries
MaxDirLen == 3

HwInfo(budget) == [model_budget_mb |-> budget]

\* budgets: none, the minimum neuronos_detect_hardware sets, and larger ones
Budgets == {0, 256, 3000, 5120, 8192}

File7B == DirEnt("falcon3-7b-instruct-1.58bit-i2_s.gguf", "reg", 2500, <<>>)
File10B == DirEnt("falcon3-10b-instruct-1.58bit-i2_s.gguf", "reg", 3500, <<>>)
FileA == DirEnt("a.gguf", "reg", 100, <<>>)
FileB == DirEnt("b.gguf", "reg", 100, <<>>)
FileTxt == DirEnt("notes.txt", "reg", 5, <<>>)
FileHidden == DirEnt(".cache.gguf", "reg", 50, <<>>)
DirSub == DirEnt("sub", "dir", 0, <<FileB, File10B>>)

DirPool == {File7B, File10B, FileA, FileB, FileTxt, FileHidden, DirSub}

\* the directories that hold n different entries of the pool, in any order
RECURSIVE DirsOfLen(_)
DirsOfLen(n) ==
    IF n = 0 THEN {<<>>}
    ELSE UNION {{Append(d, e) : e \in DirPool \ {d[i] : i \in 1 .. (n - 1)}} :
                d \in DirsOfLen(n - 1)}

Dirs == UNION {DirsOfLen(n) : n \in 0 .. MaxDirLen}

ModelsDir == "models"

\* entries for the traversal itself: a hidden directory, symbolic links to a
\* file and to a directory outside the tree, and a directory whose path
\* fills the 1024 bytes of full_path
FileOutside == DirEnt("outside.gguf", "reg", 100, <<>>)
DirOutside == DirEnt("outside", "dir", 0, <<FileB>>)
LinkFile == Symlink("link.gguf", FileOutside)
LinkDir == Symlink("linkdir", DirOutside)
DirHidden == DirEnt(".cache", "dir", 0, <<FileB>>)

\* the longest name a directory entry can have
NAME_MAX == 255

\* models/aaa...a/aaa...a/aaa...a/bbb...b, SizeofFullPath - 1 characters long
DeepLeafLen == SizeofFullPath - 1 - Len(ModelsDir) - 3 * (NAME_MAX + 1) - 1
DirDeep ==
    DirEnt(Repeat("a", NAME_MAX), "dir", 0,
        <<DirEnt(Repeat("a", NAME_MAX), "dir", 0,
            <<DirEnt(Repeat("a", NAME_MAX), "dir", 0,
                <<DirEnt(Repeat("b", DeepLeafLen), "dir", 0, <<FileA>>)>>)>>)>>)

WalkPool == {FileA, FileTxt, DirHidden, LinkFile, LinkDir, DirDeep, DirSub}

RECURSIVE WalkDirsOfLen(_)
WalkDirsOfLen(n) ==
    IF n = 0 THEN {<<>>}
    ELSE UNION {{Append(d, e) : e \in WalkPool \ {d[i] : i \in 1 .. (n - 1)}} :
                d \in WalkDirsOfLen(n - 1)}

WalkDirs == UNION {WalkDirsOfLen(n) : n \in 0 .. MaxDirLen}

NoScan == ScanResult(<<>>, TRUE, 0)

ScanInit(budgets) ==
    /\ hw \in {HwInfo(b) : b \in budgets}
    /\ scanned = <<>>
    /\ scan = NoScan
    /\ best = -1
    /\ mop = "init"
    /\ tree = <<>>

\* the limits a process may run under: directory streams run out first, or
\* the stack does
MaxOpenDirs == 6
MaxFrames == 6

ResourceLimits ==
    {Rlimit(MaxOpenDirs, MaxOpenDirs + MaxFrames),
     Rlimit(MaxOpenDirs + MaxFrames, MaxFrames)}

\* neuronos_model_scan, called once as the CLI does
ModelScan(dir, rl) ==
    LET w == ScanWalk(ModelsDir, dir, hw, rl)
    IN  /\ mop = "init"
        /\ tree' = dir
        /\ scanned' = w.entries
        /\ best' = -1
        /\ IF w.crashed
           THEN mop' = "crash" /\ scan' = scan
           ELSE mop' = "scan" /\ scan' \in neuronos_model_scan(ModelsDir, dir, hw, rl)
        /\ UNCHANGED <<hw, regVars, scoreVars, detVars, kernVars, laterVars>>

SelectBest ==
    /\ mop \in {"init", "scan"}
    /\ best' = neuronos_model_select_best(scan.entries, scan.null, scan.out_count)
    /\ mop' = "select_best"
    /\ UNCHANGED <<hw, scanned, scan, tree, regVars, scoreVars, detVars, kernVars, laterVars>>

(***************************************************************************)
(* score_model applied to two entries                                      *)
(***************************************************************************)
\* est_ram_mb values: estimate_ram_needed never gives less than 100
EstRamValues == {100, 230, 231, 239, 3350, 4650, 9000}

ParamValues == {500, 7489, 10485}

NameValues == {"a", "falcon3-7b-instruct-1.58bit-i2_s"}

ScoredEntry(name, ram, params) ==
    [path |-> ModelsDir \o "/" \o name \o ".gguf", name |-> name,
     file_size_mb |-> 0, est_ram_mb |-> ram, n_params_est |-> params,
     fits_in_ram |-> FALSE, score |-> Score(0, 1)]

\* The budgets of the scans, that of a machine with 2 TB of RAM, where
\* est_ram_mb 230 and 231 give the same float, and a budget of 262 MB, where
\* est_ram_mb 239 scores differently when the multiply-add is fused.
PairInputs ==
    {[hw |-> HwInfo(b),
      e1 |-> ScoredEntry(n, r1, p),
      e2 |-> ScoredEntry(n, r2, p)] :
        b \in Budgets \cup {262, 2000000}, n \in NameValues, p \in ParamValues,
        r1 \in EstRamValues, r2 \in EstRamValues}

\* the pair to score, and the build: GCC contracts by default where the
\* target has the instruction (aarch64, x86-64 with -mfma)
ScoreInit(inputs, builds) ==
    /\ pair \in inputs
    /\ pairScores = <<>>
    /\ fma \in builds

ScorePair ==
    /\ pairScores = <<>>
    /\ pairScores' = <<score_model(pair.e1, pair.hw), score_model(pair.e2, pair.hw)>>
    /\ UNCHANGED <<pair, fma, regVars, scanVars, detVars, kernVars, laterVars>>

(***************************************************************************)
(* Hardware detection: the RAM fields and the model budget                 *)
(*                                                                         *)
(* The platform branch is chosen when the code is compiled; plat.os names  *)
(* it and the other fields of plat are what that platform reports.  Byte   *)
(* counts are given in whole MB.                                           *)
(***************************************************************************)
\* integer division of C: the quotient is cut towards zero
CDiv(a, b) == IF a >= 0 THEN a \div b ELSE -((-a) \div b)

\* hw.model_budget_mb without the minimum
model_budget_mb_NoMinimum(ram_available_mb) ==
    ram_available_mb - 500

\* hw.model_budget_mb = hw.ram_available_mb - 500, 256 at least
model_budget_mb(ram_available_mb) ==
    IF ram_available_mb - 500 < 256 THEN 256 ELSE ram_available_mb - 500

\* /proc/meminfo: the kB value of each key, 0 for a key that is not there
\* (read_meminfo_kb)
Meminfo(total, available, free, buffers, cached) ==
    [os |-> "linux", MemTotal |-> total, MemAvailable |-> available,
     MemFree |-> free, Buffers |-> buffers, Cached |-> cached]

\* sysctl hw.memsize, in MB; 0 when the call fails (memsize starts as 0)
Sysctl(memsize_mb) == [os |-> "apple", memsize_mb |-> memsize_mb]

\* GlobalMemoryStatusEx: ullTotalPhys and ullAvailPhys, in MB
MemoryStatus(total_mb, avail_mb) ==
    [os |-> "win32", total_phys_mb |-> total_mb, avail_phys_mb |-> avail_mb]

\* sysconf(_SC_PHYS_PAGES) and sysconf(_SC_PAGE_SIZE), -1 when not supported
Sysconf(pages, page_size) == [os |-> "posix", pages |-> pages, page_size |-> page_size]

RamInfo(total, available) ==
    [ram_total_mb |-> total, ram_available_mb |-> available,
     model_budget_mb |-> model_budget_mb(available)]

\* the RAM part of neuronos_detect_hardware
neuronos_detect_hardware(p) ==
    IF p.os = "linux"
    THEN LET total == CDiv(p.MemTotal, 1024)
             available == CDiv(p.MemAvailable, 1024)
         IN  IF available <= 0
             THEN RamInfo(total, CDiv(p.MemFree + p.Buffers + p.Cached, 1024))
             ELSE RamInfo(total, available)
    ELSE IF p.os = "apple"
    THEN RamInfo(p.memsize_mb, CDiv(p.memsize_mb * 60, 100))
    ELSE IF p.os = "win32"
    THEN RamInfo(p.total_phys_mb, p.avail_phys_mb)
    ELSE LET total == IF p.pages > 0 /\ p.page_size > 0
                      THEN CDiv(p.pages * p.page_size, 1024 * 1024)
                      ELSE 2048
         IN  RamInfo(total, CDiv(total * 50, 100))

\* what the platforms report: nothing, part of it, all of it
PlatformInputs ==
    {Meminfo(t, a, f, b, c) :
        t \in {0, 2097152, 16777216}, a \in {-1024, 0, 716800, 8388608},
        f \in {0, 1048576}, b \in {0, 102400}, c \in {0, 524288}}
    \cup {Sysctl(m) : m \in {0, 2048, 16384}}
    \cup {MemoryStatus(t, a) : t \in {2048, 16384}, a \in {0, 300, 756, 8192}}
    \cup {Sysconf(n, sz) : n \in {-1, 0, 65536, 262144}, sz \in {-1, 4096}}

NoPlatform == [os |-> "none"]
NoRamInfo == [ram_total_mb |-> -1, ram_available_mb |-> -1, model_budget_mb |-> -1]

DetectInit(inputs) ==
    /\ plat \in inputs
    /\ hwinfo = NoRamInfo

DetectHardware ==
    /\ hwinfo = NoRamInfo
    /\ plat # NoPlatform
    /\ hwinfo' = neuronos_detect_hardware(plat)
    /\ UNCHANGED <<plat, regVars, scanVars, scoreVars, kernVars, laterVars>>

(***************************************************************************)
(* Scalar kernels: scalar_vec_dot_i2_i8 and the packing of                 *)
(* scalar_quantize_i2                                                      *)
(*                                                                         *)
(* A byte array is a function from 0 .. size-1 to 0 .. 255, an int8 array  *)
(* one to -128 .. 127.                                                     *)
(***************************************************************************)
SCALAR_QK_I2_S == 128

RECURSIVE BitOr(_, _)
BitOr(a, b) ==
    IF a = 0 THEN b
    ELSE IF b = 0 THEN a
    ELSE (IF a % 2 = 1 \/ b % 2 = 1 THEN 1 ELSE 0) + 2 * BitOr(a \div 2, b \div 2)

\* byte >> k and (uint8_t)(val << k)
ShiftRight(byte, k) == byte \div (2 ^ k)
ShiftLeft(val, k) == val * (2 ^ k)

\* Variant of the unpacking that maps the code to the ternary value
Raw_Ternary(byte, group_idx) ==
    BitAnd(ShiftRight(byte, 6 - 2 * group_idx), 3) - 1

\* uint8_t raw = (byte >> (6 - 2 * group_idx)) & 0x03
Raw(byte, group_idx) ==
    BitAnd(ShiftRight(byte, 6 - 2 * group_idx), 3)

\* the sum of term[lo .. hi]
RECURSIVE Accumulate(_, _, _)
Accumulate(term, lo, hi) ==
    IF lo > hi THEN 0
    ELSE IF lo = hi THEN term[lo]
    ELSE Accumulate(term, lo, (lo + hi) \div 2)
         + Accumulate(term, (lo + hi) \div 2 + 1, hi)

\* The block and j loops of one row: sum += raw * yi[j] for the 128 weights of
\* each of the nb blocks.  With nb <= SafeRowBlocks no partial sum leaves
\* int32, so the order of the additions does not matter.
RowSum(x, x_row, y, nb) ==
    LET term == [i \in 0 .. (nb * SCALAR_QK_I2_S - 1) |->
                    LET block == i \div SCALAR_QK_I2_S
                        j == i % SCALAR_QK_I2_S
                        group_idx == j \div 32
                        group_pos == j % 32
                        byte == x[x_row + block * 32 + group_pos]
                    IN  Raw(byte, group_idx) * y[block * SCALAR_QK_I2_S + j]]
    IN  Accumulate(term, 0, nb * SCALAR_QK_I2_S - 1)

\* s[row] for row = 0 .. nrc-1
scalar_vec_dot_i2_i8(n, x, bx, y, nrc) ==
    [row \in 0 .. (nrc - 1) |->
        F32(RowSum(x, row * (bx \div 4), y, n \div SCALAR_QK_I2_S))]

\* Variant of the packing step with the first group in the low bits
PackOne_LowFirst(o, q, j) ==
    LET group_idx == j \div 32
        group_pos == j % 32
    IN  [o EXCEPT ![group_pos] = BitOr(@, ShiftLeft(q[j], 2 * group_idx) % 256)]

\* out[blk * 32 + group_pos] |= (val << (6 - 2 * group_idx)), for block 0
PackOne(o, q, j) ==
    LET group_idx == j \div 32
        group_pos == j % 32
    IN  [o EXCEPT ![group_pos] = BitOr(@, ShiftLeft(q[j], 6 - 2 * group_idx) % 256)]

\* the 128 codes of a block, unpacked as the kernels do
UnpackBlock(packed) ==
    [j \in 0 .. (SCALAR_QK_I2_S - 1) |-> Raw(packed[j % 32], j \div 32)]

(***************************************************************************)
(* Scalar kernels: inputs and actions                                      *)
(***************************************************************************)
KernelArgs(n, x, bx, y, nrc) == [n |-> n, x |-> x, bx |-> bx, y |-> y, nrc |-> nrc]

BytePattern(size, a, b) == [i \in 0 .. (size - 1) |-> (a * i + b) % 256]
Int8Pattern(size, c, d) == [j \in 0 .. (size - 1) |-> ((c * j + d) % 256) - 128]

XPatterns == {<<0, 0>>, <<0, 255>>, <<1, 0>>, <<7, 3>>, <<85, 170>>}
YPatterns == {<<0, 0>>, <<0, 255>>, <<1, 0>>, <<3, 129>>, <<0, 129>>}

\* rows of n/4 bytes, one after the other
DotInputs ==
    {KernelArgs(n, BytePattern((nrc * n) \div 4, xp[1], xp[2]), n,
                Int8Pattern(n, yp[1], yp[2]), nrc) :
        n \in {0, 128, 256}, nrc \in {1, 2}, xp \in XPatterns, yp \in YPatterns}

\* the largest magnitude of raw * yi[j]: a field of 3 times an activation
\* of -128
MaxTerm == 3 * 128

\* the blocks of the longest row whose sum has at most 24 bits whatever the
\* weights and activations, MaxTerm * n <= 2^24, and of the longest row whose
\* sum stays inside int32, MaxTerm * n <= 2^31
ExactRowBlocks == (2 ^ 24 \div MaxTerm) \div SCALAR_QK_I2_S
SafeRowBlocks == (2 ^ 30 \div (MaxTerm \div 2)) \div SCALAR_QK_I2_S

\* one row of fields of 3, with activation y0 at 0 and yrest elsewhere
LongRowOf(blocks, y0, yrest) ==
    LET n == blocks * SCALAR_QK_I2_S
    IN  KernelArgs(n, [i \in 0 .. (n \div 4 - 1) |-> 255], n,
                   [j \in 0 .. (n - 1) |-> IF j = 0 THEN y0 ELSE yrest], 1)

\* a row long enough for a sum of more than 24 bits
LongRowBlocks == 345
LongRow == LongRowOf(LongRowBlocks, 126, 127)

\* the longest row of exact sums at its most negative sum, and rows of one
\* and three blocks more whose sum is odd
LongRows ==
    {LongRowOf(ExactRowBlocks, -128, -128),
     LongRowOf(ExactRowBlocks + 1, -127, -128),
     LongRowOf(ExactRowBlocks + 3, -127, -128),
     LongRow}

NoArgs == KernelArgs(0, <<>>, 0, <<>>, 0)
NoBlock == <<>>
NoCodes == <<>>
ZeroBlock == [i \in 0 .. 31 |-> 0]

CodePatterns ==
    {[j \in 0 .. (SCALAR_QK_I2_S - 1) |-> (a * j + b * (j \div 32) + c) % 3] :
        a \in 0 .. 2, b \in 0 .. 2, c \in 0 .. 2}

\* the byte whose four fields are the base-3 digits of k
ValidByte(k) ==
    64 * ((k \div 27) % 3) + 16 * ((k \div 9) % 3) + 4 * ((k \div 3) % 3) + (k % 3)

BlockPatterns ==
    {[i \in 0 .. 31 |-> ValidByte((a * i + b) % 81)] :
        a \in {0, 1, 5, 40}, b \in {0, 13, 80}}

KernelInit(args, blocks, codes) ==
    /\ kin \in args
    /\ ks = <<>>
    /\ \/ blk \in blocks /\ q8 = NoCodes
       \/ blk = NoBlock /\ q8 \in codes
    /\ out = ZeroBlock
    /\ kj = 0

VecDot ==
    /\ ks = <<>>
    /\ kin # NoArgs
    /\ ks' = scalar_vec_dot_i2_i8(kin.n, kin.x, kin.bx, kin.y, kin.nrc)
    /\ UNCHANGED <<kin, blk, q8, out, kj, regVars, scanVars, scoreVars, detVars, laterVars>>

\* the codes of blk, to be packed again
Unpack ==
    /\ blk # NoBlock
    /\ q8 = NoCodes
    /\ q8' = UnpackBlock(blk)
    /\ UNCHANGED <<kin, ks, blk, out, kj, regVars, scanVars, scoreVars, detVars, laterVars>>

\* one turn of the j loop of the packing
PackStep ==
    /\ q8 # NoCodes
    /\ kj < SCALAR_QK_I2_S
    /\ out' = PackOne(out, q8, kj)
    /\ kj' = kj + 1
    /\ UNCHANGED <<kin, ks, blk, q8, regVars, scanVars, scoreVars, detVars, laterVars>>

(***************************************************************************)
(* Quantization: scalar_quantize_i2                                        *)
(*                                                                         *)
(* A weight is an integer w that stands for the float w * 2^-24; with      *)
(* |w| < 2^24 these are floats, and their products and absolute values are *)
(* exact in double.  The threshold 1e-6 lies between 16 * 2^-24 and        *)
(* 17 * 2^-24.  dst is a function from byte offsets to cells: a cell is    *)
(* [kind, v, part], kind "u8" for a byte of value v, "f32" for byte `part`  *)
(* of a float of value v, "none" for a byte that was not written.          *)
(***************************************************************************)
Cell(kind, v, part) == [kind |-> kind, v |-> v, part |-> part]
Unwritten == Cell("none", 0, 0)

\* fabs((double)src[i])
Fabs(w) == IF w < 0 THEN -w ELSE w

\* fabs((double)src[i]) < 1e-6
BelowEpsilon(w) == Fabs(w) * 1000000 < 2 ^ 24

\* Step 1: max_val over the n weights
MaxVal(src, n) ==
    LET S == {Fabs(src[i]) : i \in 0 .. (n - 1)} \cup {0}
    IN  CHOOSE m \in S : \A v \in S : v <= m

\* Variant of step 2 that encodes a zero weight as 2
QuantCode_ZeroAsTwo(w, i2_scale) ==
    IF BelowEpsilon(w) THEN 2
    ELSE IF w * i2_scale > 0 THEN 2 ELSE 0

\* Step 2: the code of one weight
QuantCode(w, i2_scale) ==
    IF BelowEpsilon(w) THEN 1
    ELSE IF w * i2_scale > 0 THEN 2 ELSE 0

\* Step 3 for one byte: the four |= of the j loop that land in out[b * 32 + pos]
PackedByte(codes, b, pos) ==
    LET val(g) == codes[b * SCALAR_QK_I2_S + 32 * g + pos]
    IN  BitOr(BitOr(BitOr(ShiftLeft(val(0), 6) % 256, ShiftLeft(val(1), 4) % 256),
                    ShiftLeft(val(2), 2) % 256),
              ShiftLeft(val(3), 0) % 256)

\* the size of the buffer the caller passes: the n / 4 + 32 bytes the
\* function reports as the size of its output
DstSize(n) == n \div 4 + 32

scalar_quantize_i2(src, nrow, n_per_row, alloc_ok) ==
    LET n == nrow * n_per_row
        i2_scale == MaxVal(src, n)
        codes == [i \in 0 .. (n - 1) |-> QuantCode(src[i], i2_scale)]
        num_blocks == n \div SCALAR_QK_I2_S
    IN  IF ~alloc_ok
        THEN [ret |-> 0, dst |-> [o \in 0 .. (DstSize(n) - 1) |-> Unwritten]]
        ELSE [ret |-> n \div 4 + 32,
              dst |-> [o \in 0 .. (DstSize(n) - 1) |->
                         IF o < num_blocks * 32
                         THEN Cell("u8", PackedByte(codes, o \div 32, o % 32), 0)
                         ELSE IF o < n \div 4 THEN Cell("u8", 0, 0)
                         ELSE IF o < n \div 4 + 4 THEN Cell("f32", i2_scale, o - n \div 4)
                         ELSE Unwritten]]

\* the code of weight i as the kernels read it from the packed bytes
CodeAt(dst, i) ==
    Raw(dst[(i \div SCALAR_QK_I2_S) * 32 + (i % 32)].v, (i % SCALAR_QK_I2_S) \div 32)

\* unpack_i2(packed, j) for the 32 bytes packed of a block and j in 0 .. 127:
\* the ternary value raw - 1
unpack_i2(packed, j) == Raw(packed[j % 32], j \div 32) - 1

\* The sources hold no dequantizer.  A weight is read back as the ternary
\* value of its code times the scale, the scale taken from where
\* scalar_quantize_i2 stores it.
Dequantize(dst, n) ==
    [i \in 0 .. (n - 1) |->
        unpack_i2([pos \in 0 .. 31 |-> dst[(i \div SCALAR_QK_I2_S) * 32 + pos].v],
                  i % SCALAR_QK_I2_S)
            * dst[n \div 4].v]

(***************************************************************************)
(* Quantization: inputs and actions                                        *)
(***************************************************************************)
QuantArgs(src, nrow, n_per_row, alloc_ok) ==
    [src |-> src, nrow |-> nrow, n_per_row |-> n_per_row, alloc_ok |-> alloc_ok]

WeightValues ==
    {<<0>>, <<5>>, <<-16, 16, 0>>, <<17>>, <<-2000>>,
     <<17, -17, 0, 16, -16, 2000, -2000>>, <<1, -2000, 17>>,
     <<0, 0, 0, 17>>, <<-17, 5>>}

WeightVector(V, n, a, b) ==
    [j \in 0 .. (n - 1) |-> V[((a * j + b * (j \div SCALAR_QK_I2_S)) % Len(V)) + 1]]

\* two blocks whose largest weights differ
TwoScales == [j \in 0 .. 255 |-> IF j < SCALAR_QK_I2_S THEN 17 - (j % 3) ELSE 2000 - j]

\* Tensors of one and two blocks, and rows that are no whole number of
\* blocks: 200 and 64 weights, and no weight at all.
QuantInputs ==
    {QuantArgs(WeightVector(V, nrow * SCALAR_QK_I2_S, a, b), nrow, SCALAR_QK_I2_S, ok) :
        V \in WeightValues, nrow \in {1, 2}, a \in {1, 2}, b \in {0, 1}, ok \in BOOLEAN}
    \cup {QuantArgs(TwoScales, 2, SCALAR_QK_I2_S, TRUE),
          QuantArgs(TwoScales, 1, 2 * SCALAR_QK_I2_S, TRUE)}
    \cup {QuantArgs(WeightVector(V, nrow * n_per_row, 1, 0), nrow, n_per_row, TRUE) :
            V \in {<<17, -17, 0, 16, -16, 2000, -2000>>, <<-17, 5>>},
            nrow \in {0, 1}, n_per_row \in {64, 200}}

NoQuantArgs == QuantArgs(<<>>, 0, 0, FALSE)
NoQuantResult == [ret |-> -1, dst |-> <<>>]

QuantInit(args) ==
    /\ qin \in args
    /\ qres = NoQuantResult
    /\ qres2 = NoQuantResult

Quantize ==
    /\ qin # NoQuantArgs
    /\ qres = NoQuantResult
    /\ qres' = scalar_quantize_i2(qin.src, qin.nrow, qin.n_per_row, qin.alloc_ok)
    /\ UNCHANGED <<qin, qres2, regVars, scanVars, scoreVars, detVars, kernVars, gemvVars, cliVars, toolVars>>

\* the caller dequantizes the blocks it got and quantizes them again
Requantize ==
    /\ qres.ret > 0
    /\ (qin.nrow * qin.n_per_row) % SCALAR_QK_I2_S = 0
    /\ qres2 = NoQuantResult
    /\ qres2' = scalar_quantize_i2(Dequantize(qres.dst, qin.nrow * qin.n_per_row),
                                   qin.nrow, qin.n_per_row, qin.alloc_ok)
    /\ UNCHANGED <<qin, qres, regVars, scanVars, scoreVars, detVars, kernVars, gemvVars, cliVars, toolVars>>

(***************************************************************************)
(* scalar_gemv_i2_i8 next to scalar_vec_dot_i2_i8                          *)
(*                                                                         *)
(* The output array s is seen as the set of the writes made to it, each a  *)
(* pair <<byte offset from s, float written>>.                             *)
(***************************************************************************)
SizeofFloat == 4

\* s[row] = (float)sum for the rows of scalar_vec_dot_i2_i8
VecDotWrites(n, x, bx, y, nrc) ==
    LET s == scalar_vec_dot_i2_i8(n, x, bx, y, nrc)
    IN  {<<row * SizeofFloat, s[row]>> : row \in 0 .. (nrc - 1)}

\* *((float *)((char *)s + row * bs)) = (float)sum
scalar_gemv_i2_i8(n, bs, x, y, nr) ==
    LET nb == n \div SCALAR_QK_I2_S
        row_bytes == nb * 32
    IN  {<<row * bs, F32(RowSum(x, row * row_bytes, y, nb))>> : row \in 0 .. (nr - 1)}

GemvArgs(n, x, bx, bs, y, nr) ==
    [n |-> n, x |-> x, bx |-> bx, bs |-> bs, y |-> y, nr |-> nr]

\* nr rows of n/4 packed bytes one after the other; bx is at most n, so that
\* both functions read inside x: the row stride in bytes (32 or 64) or 128
GemvInputs ==
    {GemvArgs(n, BytePattern((nr * n) \div 4, xp[1], xp[2]), bx, bs,
              Int8Pattern(n, yp[1], yp[2]), nr) :
        n \in {SCALAR_QK_I2_S, 2 * SCALAR_QK_I2_S}, nr \in 1 .. 3,
        bx \in {SCALAR_QK_I2_S \div 4, SCALAR_QK_I2_S \div 2, SCALAR_QK_I2_S},
        bs \in {SizeofFloat, 2 * SizeofFloat},
        xp \in {<<1, 0>>, <<7, 3>>, <<85, 170>>}, yp \in {<<1, 0>>, <<3, 129>>}}

NoGemvArgs == GemvArgs(0, <<>>, 0, 0, <<>>, 0)
NoWrites == {<<-1, 0>>}

GemvInit(args) ==
    /\ gin \in args
    /\ gdot = NoWrites
    /\ ggemv = NoWrites

GemvVecDot ==
    /\ gin # NoGemvArgs
    /\ gdot = NoWrites
    /\ gdot' = VecDotWrites(gin.n, gin.x, gin.bx, gin.y, gin.nr)
    /\ UNCHANGED <<gin, ggemv, regVars, scanVars, scoreVars, detVars, kernVars, quantVars, cliVars, toolVars>>

Gemv ==
    /\ gin # NoGemvArgs
    /\ ggemv = NoWrites
    /\ ggemv' = scalar_gemv_i2_i8(gin.n, gin.bs, gin.x, gin.y, gin.nr)
    /\ UNCHANGED <<gin, gdot, regVars, scanVars, scoreVars, detVars, kernVars, quantVars, cliVars, toolVars>>

(***************************************************************************)
(* Command line: main, cmd_generate and cmd_agent                          *)
(*                                                                         *)
(* A run of main is its exit status rc, the return statement it left by    *)
(* (site) and the sequence ev of what it did to the objects it owns: an    *)
(* event is [op, obj] with op "create", "use" or "release".  The engine,   *)
(* model and agent calls are those of the library behind neuronos.h; what  *)
(* they report is given by env.                                            *)
(***************************************************************************)
Ev(op, obj) == [op |-> op, obj |-> obj]
Ret(rc, site, ev) == [rc |-> rc, site |-> site, ev |-> ev]

\* cmd_generate: the events after those of its caller
cmd_generate(prompt, e) ==
    IF prompt = NULL THEN Ret(1, "no_prompt", <<>>)
    ELSE LET ev == <<Ev("use", "model"), Ev("create", "gen_result"),
                     Ev("release", "gen_result")>>
         IN  IF e.gen = "NEURONOS_OK" THEN Ret(0, "generated", ev)
             ELSE Ret(1, "generate_failed", ev)

cmd_agent(prompt, e) ==
    IF prompt = NULL THEN Ret(1, "no_prompt", <<>>)
    ELSE LET tools == IF e.tools_ok THEN <<Ev("create", "tools"), Ev("use", "tools")>>
                      ELSE <<>>
             free_tools == IF e.tools_ok THEN <<Ev("release", "tools")>> ELSE <<>>
         IN  IF ~e.agent_ok
             THEN Ret(1, "agent_create_failed",
                      tools \o <<Ev("use", "model")>> \o free_tools)
             ELSE LET ev == tools
                            \o <<Ev("use", "model"), Ev("create", "agent")>>
                            \o (IF e.tools_ok THEN <<Ev("use", "tools")>> ELSE <<>>)
                            \o <<Ev("use", "agent"), Ev("create", "agent_result"),
                                 Ev("release", "agent_result"),
                                 Ev("release", "agent")>>
                            \o free_tools
                  IN  IF e.run = "NEURONOS_OK" THEN Ret(0, "agent_done", ev)
                      ELSE IF e.run = "STEP_BUDGET_EXHAUSTED"
                      THEN Ret(1, "agent_budget_exhausted", ev)
                      ELSE Ret(1, "agent_failed", ev)

\* the tail shared by the auto and legacy branches: run the command on the
\* loaded model
RunCommand(command, prompt, e) ==
    IF command = "generate" THEN cmd_generate(prompt, e)
    ELSE IF command = "agent" THEN cmd_agent(prompt, e)
    ELSE Ret(1, "unknown_command", <<>>)

\* Variant of the auto branch that frees the scan list before loading the
\* model from best->path
MainAuto_FreeEarly(a, e) ==
    IF a.argc < 3 THEN Ret(1, "usage", <<>>)
    ELSE IF e.scan = "none" THEN Ret(1, "no_models", <<>>)
    ELSE IF e.scan = "nofit"
    THEN Ret(1, "no_fit", <<Ev("create", "models"), Ev("use", "models"),
                            Ev("release", "models")>>)
    ELSE LET ev1 == <<Ev("create", "models"), Ev("use", "models"), Ev("use", "best"),
                      Ev("release", "models")>>
         IN  IF ~e.init_ok THEN Ret(1, "init_failed", ev1)
             ELSE LET ev2 == ev1 \o <<Ev("create", "engine"), Ev("use", "best")>>
                  IN  IF ~e.load_ok
                      THEN Ret(1, "load_failed",
                               ev2 \o <<Ev("use", "best"), Ev("release", "engine")>>)
                      ELSE LET r == RunCommand(a.sub, a.prompt, e)
                           IN  Ret(r.rc, r.site,
                                   ev2 \o <<Ev("create", "model")>> \o r.ev
                                       \o <<Ev("release", "model"),
                                            Ev("release", "engine")>>)

MainAuto(a, e) ==
    IF a.argc < 3 THEN Ret(1, "usage", <<>>)
    ELSE IF e.scan = "none" THEN Ret(1, "no_models", <<>>)
    ELSE IF e.scan = "nofit"
    THEN Ret(1, "no_fit", <<Ev("create", "models"), Ev("use", "models"),
                            Ev("release", "models")>>)
    ELSE LET ev1 == <<Ev("create", "models"), Ev("use", "models"), Ev("use", "best")>>
         IN  IF ~e.init_ok
             THEN Ret(1, "init_failed", ev1 \o <<Ev("release", "models")>>)
             ELSE LET ev2 == ev1 \o <<Ev("create", "engine"), Ev("use", "best")>>
                  IN  IF ~e.load_ok
                      THEN Ret(1, "load_failed",
                               ev2 \o <<Ev("use", "best"), Ev("release", "engine"),
                                        Ev("release", "models")>>)
                      ELSE LET r == RunCommand(a.sub, a.prompt, e)
                           IN  Ret(r.rc, r.site,
                                   ev2 \o <<Ev("create", "model")>> \o r.ev
                                       \o <<Ev("release", "model"),
                                            Ev("release", "engine"),
                                            Ev("release", "models")>>)

MainScan(a, e) ==
    IF e.scan = "none" THEN Ret(1, "no_models", <<>>)
    ELSE Ret(0, "scanned",
             <<Ev("create", "models"), Ev("use", "models"), Ev("use", "models")>>
             \o (IF e.scan = "fit" THEN <<Ev("use", "best")>> ELSE <<>>)
             \o <<Ev("release", "models")>>)

MainLegacy(a, e) ==
    LET command == IF a.argc > 2 THEN a.sub ELSE "info"
    IN  IF ~e.init_ok THEN Ret(1, "init_failed", <<>>)
        ELSE IF command = "info"
        THEN IF ~e.load_ok
             THEN Ret(1, "load_failed",
                      <<Ev("create", "engine"), Ev("release", "engine")>>)
             ELSE Ret(0, "info",
                      <<Ev("create", "engine"), Ev("create", "model"),
                        Ev("use", "model"), Ev("release", "model"),
                        Ev("release", "engine")>>)
        ELSE IF ~e.load_ok
        THEN Ret(1, "load_failed", <<Ev("create", "engine"), Ev("release", "engine")>>)
        ELSE LET r == RunCommand(command, a.prompt, e)
             IN  Ret(r.rc, r.site,
                     <<Ev("create", "engine"), Ev("create", "model")>> \o r.ev
                         \o <<Ev("release", "model"), Ev("release", "engine")>>)

main(a, e) ==
    IF a.argc < 2 THEN Ret(1, "usage", <<>>)
    ELSE IF a.cmd = "hwinfo" THEN Ret(0, "hwinfo", <<>>)
    ELSE IF a.cmd = "scan" THEN MainScan(a, e)
    ELSE IF a.cmd = "auto" THEN MainAuto(a, e)
    ELSE MainLegacy(a, e)

(***************************************************************************)
(* Command line: inputs and the action                                     *)
(***************************************************************************)
Argv(argc, cmd, sub, prompt) ==
    [argc |-> argc, cmd |-> cmd, sub |-> sub, prompt |-> prompt]

\* argv[1], argv[2] and the first later argument that is not an option
CommandLines ==
    {Argv(1, "", "", NULL)}
    \cup {Argv(2, c, "", NULL) : c \in {"hwinfo", "scan", "auto", "m.gguf"}}
    \cup {Argv(3, c, sc, NULL) :
            c \in {"scan", "auto", "m.gguf"},
            sc \in {"info", "generate", "agent", "chat"}}
    \cup {Argv(4, c, sc, "task") :
            c \in {"auto", "m.gguf"}, sc \in {"info", "generate", "agent", "chat"}}

Environments ==
    [scan : {"none", "nofit", "fit"}, init_ok : BOOLEAN, load_ok : BOOLEAN,
     gen : {"NEURONOS_OK", "NEURONOS_ERROR_GENERATE"},
     tools_ok : BOOLEAN, agent_ok : BOOLEAN,
     run : {"NEURONOS_OK", "NEURONOS_ERROR_GENERATE", "STEP_BUDGET_EXHAUSTED"}]

NoArgv == Argv(0, "", "", NULL)
NoEnv == [scan |-> "none", init_ok |-> FALSE, load_ok |-> FALSE,
          gen |-> "NEURONOS_OK", tools_ok |-> FALSE, agent_ok |-> FALSE,
          run |-> "NEURONOS_OK"]
Running == Ret(-1, "", <<>>)

CliInit(lines, envs) ==
    /\ argv \in lines
    /\ env \in envs
    /\ exit = Running

Main ==
    /\ argv # NoArgv
    /\ exit = Running
    /\ exit' = main(argv, env)
    /\ UNCHANGED <<argv, env, regVars, scanVars, scoreVars, detVars, kernVars,
                   quantVars, gemvVars, toolVars>>

LaterIdle ==
    /\ QuantInit({NoQuantArgs})
    /\ GemvInit({NoGemvArgs})
    /\ CliInit({NoArgv}, {NoEnv})
    /\ ToolInit

(***************************************************************************)
(* Specifications                                                          *)
(***************************************************************************)
IdlePair ==
    [hw |-> HwInfo(256), e1 |-> ScoredEntry("a", 100, 500),
     e2 |-> ScoredEntry("a", 100, 500)]

InitReg == RegInit(GrantedMasks) /\ ScanInit({256}) /\ ScoreInit({IdlePair}, {FALSE})
    /\ DetectInit({NoPlatform})
    /\ KernelInit({NoArgs}, {}, {NoCodes})
    /\ LaterIdle

NextReg ==
    \/ \E d \in RegisterInputs(reg) : Register(d)
    \/ \E c \in CapMasks : RegisterDefaults(c)
    \/ \E n \in ExecuteNames, a \in ExecuteArgs : Execute(n, a)
    \/ GrammarNames
    \/ PromptDescription

SpecReg == InitReg /\ [][NextReg]_vars

InitScan == RegInit({0}) /\ ScanInit(Budgets) /\ ScoreInit({IdlePair}, BOOLEAN)
    /\ DetectInit({NoPlatform})
    /\ KernelInit({NoArgs}, {}, {NoCodes})
    /\ LaterIdle

NextScan ==
    \/ \E d \in Dirs, rl \in ResourceLimits : ModelScan(d, rl)
    \/ SelectBest

SpecScan == InitScan /\ [][NextScan]_vars

InitWalk == RegInit({0}) /\ ScanInit({256, 5120}) /\ ScoreInit({IdlePair}, BOOLEAN)
    /\ DetectInit({NoPlatform})
    /\ KernelInit({NoArgs}, {}, {NoCodes})
    /\ LaterIdle

NextWalk ==
    \/ \E d \in WalkDirs, rl \in ResourceLimits : ModelScan(d, rl)
    \/ SelectBest

SpecWalk == InitWalk /\ [][NextWalk]_vars

InitScore ==
    RegInit({0}) /\ ScanInit({256}) /\ ScoreInit(PairInputs, BOOLEAN)
    /\ DetectInit({NoPlatform})
    /\ KernelInit({NoArgs}, {}, {NoCodes})
    /\ LaterIdle

InitDetect ==
    RegInit({0}) /\ ScanInit({256}) /\ ScoreInit({IdlePair}, {FALSE})
    /\ DetectInit(PlatformInputs)
    /\ KernelInit({NoArgs}, {}, {NoCodes})
    /\ LaterIdle

NextDetect == DetectHardware

SpecDetect == InitDetect /\ [][NextDetect]_vars

InitDot ==
    RegInit({0}) /\ ScanInit({256}) /\ ScoreInit({IdlePair}, {FALSE})
    /\ DetectInit({NoPlatform})
    /\ KernelInit(DotInputs \cup LongRows, {}, {NoCodes})
    /\ LaterIdle

NextDot == VecDot

SpecDot == InitDot /\ [][NextDot]_vars

InitPack ==
    RegInit({0}) /\ ScanInit({256}) /\ ScoreInit({IdlePair}, {FALSE})
    /\ DetectInit({NoPlatform})
    /\ KernelInit({NoArgs}, BlockPatterns, CodePatterns)
    /\ LaterIdle

NextPack ==
    \/ Unpack
    \/ PackStep

SpecPack == InitPack /\ [][NextPack]_vars

InitQuant ==
    RegInit({0}) /\ ScanInit({256}) /\ ScoreInit({IdlePair}, {FALSE})
    /\ DetectInit({NoPlatform})
    /\ KernelInit({NoArgs}, {}, {NoCodes})
    /\ QuantInit(QuantInputs)
    /\ GemvInit({NoGemvArgs})
    /\ CliInit({NoArgv}, {NoEnv})
    /\ ToolInit

NextQuant ==
    \/ Quantize
    \/ Requantize

SpecQuant == InitQuant /\ [][NextQuant]_vars

InitGemv ==
    RegInit({0}) /\ ScanInit({256}) /\ ScoreInit({IdlePair}, {FALSE})
    /\ DetectInit({NoPlatform})
    /\ KernelInit({NoArgs}, {}, {NoCodes})
    /\ QuantInit({NoQuantArgs})
    /\ GemvInit(GemvInputs)
    /\ CliInit({NoArgv}, {NoEnv})
    /\ ToolInit

NextGemv ==
    \/ GemvVecDot
    \/ Gemv

SpecGemv == InitGemv /\ [][NextGemv]_vars

InitCli ==
    RegInit({0}) /\ ScanInit({256}) /\ ScoreInit({IdlePair}, {FALSE})
    /\ DetectInit({NoPlatform})
    /\ KernelInit({NoArgs}, {}, {NoCodes})
    /\ QuantInit({NoQuantArgs})
    /\ GemvInit({NoGemvArgs})
    /\ CliInit(CommandLines, Environments)
    /\ ToolInit

NextCli == Main

SpecCli == InitCli /\ [][NextCli]_vars

InitTool == RegInit(CapMasks) /\ ScanInit({256}) /\ ScoreInit({IdlePair}, {FALSE})
    /\ DetectInit({NoPlatform})
    /\ KernelInit({NoArgs}, {}, {NoCodes})
    /\ LaterIdle

\* the agent registers the default tools its capabilities allow, then calls
NextTool ==
    \/ RegisterDefaults(granted)
    \/ \E n \in ToolNames, a \in ToolArgs : Execute(n, a)
    \/ Return

SpecTool == InitTool /\ [][NextTool]_vars

\* Whether a call returns does not depend on the calls before it: the fair
\* specification follows the agent up to its first call.  The agent takes
\* its next step whenever it can; nothing in the code makes a child exit or
\* a FIFO open, so nothing is assumed of a call that waits.
AgentStep ==
    \/ RegisterDefaults(granted)
    \/ /\ call.op # "execute"
       /\ \E n \in ToolNames, a \in ToolArgs : Execute(n, a)

NextToolFair ==
    \/ AgentStep
    \/ Return

SpecToolFair == InitTool /\ [][NextToolFair]_vars /\ WF_vars(AgentStep)

NextScore == ScorePair

SpecScore == InitScore /\ [][NextScore]_vars

(***************************************************************************)
(* Properties of the tool registry                                         *)
(***************************************************************************)
\* the indices of the stored tools named n
Stored(r, n) == {i \in 0 .. (r.count - 1) : r.tools[i].name = n}

StoredNames(r) == {r.tools[i].name : i \in 0 .. (r.count - 1)}

\* C1: a neuronos_tool_register call whose descriptor carries a name that is
\* already registered returns -1 and leaves the registry as it was: same
\* count, same order, same stored descriptors.
C1_DuplicateRejected ==
    [][(call'.op = "register" /\ Stored(reg, call'.desc.name) # {})
          => (ret' = -1 /\ reg' = reg)]_vars

\* a duplicate registration with another executor, user_data, caps and schema
\* than the stored tool was rejected, in a registry that is not full
C1_Witness ==
    /\ call.op = "register"
    /\ ret = -1
    /\ reg.count < NEURONOS_MAX_TOOLS
    /\ \E i \in Stored(reg, call.desc.name) :
          /\ reg.tools[i].execute # call.desc.execute
          /\ reg.tools[i].user_data # call.desc.user_data
          /\ reg.tools[i].required_caps # call.desc.required_caps
          /\ reg.tools[i].args_schema_json # call.desc.args_schema_json

\* C2: capability gating.  A request to execute a registered tool with
\* required caps C runs its executor if and only if (granted & C) == C.
C2_CapabilityGating ==
    (call.op = "execute" /\ call.name # NULL)
        => \A i \in Stored(reg, call.name) :
              (invoked # <<>>)
                  <=> (BitAnd(granted, reg.tools[i].required_caps)
                          = reg.tools[i].required_caps)

\* C3: register fails, leaving the registry unchanged, on a null name, a null
\* executor or a full registry; the count is within 0..64, equals the number
\* of successful registrations, and the stored names are pairwise distinct.
C3_CountAndNames ==
    /\ reg.count >= 0
    /\ reg.count <= NEURONOS_MAX_TOOLS
    /\ reg.count = Len(okNames)
    /\ \A i, j \in 0 .. (reg.count - 1) :
          i # j => reg.tools[i].name # reg.tools[j].name

C3_RegisterFails ==
    /\ []C3_CountAndNames
    /\ [][(/\ call'.op = "register"
           /\ \/ call'.desc.name = NULL
              \/ call'.desc.execute = NULL
              \/ reg.count >= NEURONOS_MAX_TOOLS)
             => (ret' = -1 /\ reg' = reg)]_vars

\* a valid descriptor with a new name was rejected because the registry
\* holds 64 tools
C3_Witness ==
    /\ call.op = "register"
    /\ ret = -1
    /\ reg.count = NEURONOS_MAX_TOOLS
    /\ call.desc.name # NULL
    /\ call.desc.execute # NULL
    /\ Stored(reg, call.desc.name) = {}

\* C4: neuronos_tool_execute invokes an executor exactly when the name is
\* registered, and then only the executor stored under that name, once, with
\* the stored user_data and with args_json, or "{}" for a null args_json;
\* for a name that is not registered it invokes nothing and returns
\* success=false with error "Tool not found"; the registry is not changed.
C4_Dispatch ==
    call.op = "execute" =>
        /\ \A i \in Stored(reg, call.name) :
              invoked = <<Invocation(reg.tools[i].execute,
                                     IF call.args = NULL THEN "{}" ELSE call.args,
                                     reg.tools[i].user_data)>>
        /\ Stored(reg, call.name) = {} =>
              /\ invoked = <<>>
              /\ result.success = FALSE
              /\ call.name # NULL => result.error = "Tool not found"

C4_Execute ==
    [][call'.op = "execute" => (C4_Dispatch' /\ reg' = reg)]_vars

\* a registered tool with user_data was executed with a null args_json
C4_Witness ==
    /\ call.op = "execute"
    /\ call.args = NULL
    /\ Len(invoked) = 1
    /\ invoked[1].args = "{}"
    /\ invoked[1].user_data # NULL
    /\ Stored(reg, call.name) # {}
    /\ reg.count > 1

\* the rule "tool-name ::= ..." for the names ns, in their order
RECURSIVE Alternatives(_)
Alternatives(ns) ==
    IF ns = <<>> THEN ""
    ELSE "\"\\\"" \o Head(ns) \o "\\\"\""
         \o (IF Tail(ns) = <<>> THEN "" ELSE " | " \o Alternatives(Tail(ns)))

\* C5: for a non-empty registry the grammar fragment is "tool-name ::= "
\* followed by the quoted names of the successfully registered tools, each
\* once, in registration order, separated by " | ".
C5_GrammarOrder ==
    (call.op = "grammar_names" /\ reg.count > 0)
        => /\ ~grammar.oob
           /\ grammar.buf = "tool-name ::= " \o Alternatives(okNames)

\* C6: on an empty registry neuronos_tool_register_defaults registers shell
\* iff SHELL is allowed, read_file and write_file iff FILESYSTEM is allowed,
\* calculate always, with required caps SHELL, FILESYSTEM, FILESYSTEM and 0,
\* and returns the number of tools it added.
C6_Post(r, rv, caps) ==
    /\ "shell" \in StoredNames(r) <=> BitAnd(caps, NEURONOS_CAP_SHELL) # 0
    /\ "read_file" \in StoredNames(r) <=> BitAnd(caps, NEURONOS_CAP_FILESYSTEM) # 0
    /\ "write_file" \in StoredNames(r) <=> BitAnd(caps, NEURONOS_CAP_FILESYSTEM) # 0
    /\ "calculate" \in StoredNames(r)
    /\ \A i \in Stored(r, "shell") : r.tools[i].required_caps = NEURONOS_CAP_SHELL
    /\ \A i \in Stored(r, "read_file") :
          r.tools[i].required_caps = NEURONOS_CAP_FILESYSTEM
    /\ \A i \in Stored(r, "write_file") :
          r.tools[i].required_caps = NEURONOS_CAP_FILESYSTEM
    /\ \A i \in Stored(r, "calculate") : r.tools[i].required_caps = 0
    /\ rv = r.count

C6_Defaults ==
    [][(call'.op = "register_defaults" /\ reg.count = 0)
          => C6_Post(reg', ret', call'.caps)]_vars

\* the defaults were registered on an empty registry with FILESYSTEM only,
\* as the CLI does: read_file, write_file and calculate, no shell
C6_Witness ==
    /\ call.op = "register_defaults"
    /\ call.caps = NEURONOS_CAP_FILESYSTEM
    /\ ret = 3
    /\ okNames = <<"read_file", "write_file", "calculate">>
    /\ reg.count = 3

(***************************************************************************)
(* Properties of the model registry                                        *)
(***************************************************************************)
Fitting(es) == {i \in 1 .. Len(es) : es[i].est_ram_mb <= hw.model_budget_mb}

\* C7: hard-constraint isolation.  In the array neuronos_model_scan returns,
\* an entry with est_ram_mb > model_budget_mb has score -1 and fits_in_ram
\* false, an entry with est_ram_mb <= model_budget_mb has score >= 1000 and
\* fits_in_ram true, no entry that does not fit comes before one that fits,
\* and neuronos_model_select_best never returns an entry whose est_ram_mb
\* exceeds the budget.
C7_HardConstraint ==
    LET es == scan.entries
    IN  /\ \A i \in 1 .. Len(es) :
            IF es[i].est_ram_mb > hw.model_budget_mb
            THEN es[i].score = Score(-1, 1) /\ ~es[i].fits_in_ram
            ELSE /\ es[i].score.den > 0
                 /\ es[i].score.num >= 1000 * es[i].score.den
                 /\ es[i].fits_in_ram
        /\ \A i, j \in 1 .. Len(es) :
            (i \notin Fitting(es) /\ j \in Fitting(es)) => j < i
        /\ best >= 1 => es[best].est_ram_mb <= hw.model_budget_mb

\* a scan that found a model that fits with fewer bonuses than one that does
\* not fit, and select_best returned the one that fits
C7_Witness ==
    /\ mop = "select_best"
    /\ best >= 1
    /\ \E i \in 1 .. Len(scan.entries) :
        /\ i \notin Fitting(scan.entries)
        /\ FormatBonus(scan.entries[i].name) + InstructBonus(scan.entries[i].name)
             > FormatBonus(scan.entries[best].name)
               + InstructBonus(scan.entries[best].name)
        /\ scan.entries[i].n_params_est > scan.entries[best].n_params_est

Qualifying(es, n) == {i \in 1 .. n : es[i].fits_in_ram /\ ScoreGT(es[i].score, Score(0, 1))}

C8_Post ==
    LET ok == Qualifying(scan.entries, scan.out_count)
    IN  /\ best = 0 <=> (scan.null \/ scan.out_count = 0 \/ ok = {})
        /\ best # 0 => (best \in ok /\ \A j \in ok : best <= j)

\* C8: neuronos_model_select_best returns the entry of lowest index that has
\* score > 0 and fits_in_ram, returns none exactly when entries is null, count
\* is 0 or no entry has both, and leaves the entries as they were.
C8_SelectBest ==
    [][mop' = "select_best" => (C8_Post' /\ scan' = scan)]_vars

\* select_best returned an entry out of several that qualify
C8_Witness ==
    /\ mop = "select_best"
    /\ best = 1
    /\ Cardinality(Qualifying(scan.entries, scan.out_count)) >= 2
    /\ Qualifying(scan.entries, scan.out_count) # 1 .. scan.out_count

PositionOf(es, path) == CHOOSE i \in 1 .. Len(es) : es[i].path = path

\* C9: of two scanned models with equal score, the one the traversal met
\* first comes first in the array neuronos_model_scan returns.  The code
\* sorts with qsort, which does not keep the order of equal elements.
C9_TiesByScanOrder ==
    mop # "init" =>
        \A i, j \in 1 .. Len(scanned) :
            (i < j /\ ScoreEQ(scanned[i].score, scanned[j].score))
                => PositionOf(scan.entries, scanned[i].path)
                     < PositionOf(scan.entries, scanned[j].path)

\* C10: of two entries with the same name and the same estimated parameters,
\* the one with the smaller est_ram_mb scores at least as much as the other,
\* whether or not they fit.
C10_Monotone ==
    (pairScores # <<>> /\ pair.e1.est_ram_mb <= pair.e2.est_ram_mb)
        => ~ScoreGT(pairScores[2], pairScores[1])

\* two entries that both fit, the smaller scoring strictly more
C10_Witness ==
    /\ pairScores # <<>>
    /\ pair.e1.est_ram_mb < pair.e2.est_ram_mb
    /\ pair.e2.est_ram_mb <= pair.hw.model_budget_mb
    /\ ScoreGT(pairScores[1], pairScores[2])

Path7B == ModelsDir \o "/" \o File7B.d_name
Path10B == ModelsDir \o "/" \o File10B.d_name

\* the scan found exactly the 7B and the 10B file of the models directory
Scanned7BAnd10B ==
    /\ mop # "init"
    /\ {scanned[i].path : i \in 1 .. Len(scanned)} = {Path7B, Path10B}

EntryOf(es, path) == es[PositionOf(es, path)]

\* C11 as stated: with the 7B (2500 MB) and the 10B (3500 MB) file and a
\* budget of 3000 MB, the 10B entry scores -1, the 7B entry scores more than
\* 0 and select_best returns the 7B entry.
C11_OomFilterSelects7B ==
    (Scanned7BAnd10B /\ hw.model_budget_mb = 3000 /\ mop = "select_best")
        => /\ EntryOf(scan.entries, Path10B).score = Score(-1, 1)
           /\ ScoreGT(EntryOf(scan.entries, Path7B).score, Score(0, 1))
           /\ best >= 1
           /\ scan.entries[best].path = Path7B

\* C11 amended: with the 7B (2500 MB) and the 10B (3500 MB) file and a
\* budget of 3000 MB, est_ram_mb is 3350 and 4650, both entries score -1 with
\* fits_in_ram false, and select_best returns none.
C11_OomFilterBoth ==
    (Scanned7BAnd10B /\ hw.model_budget_mb = 3000)
        => /\ EntryOf(scan.entries, Path7B).est_ram_mb = 3350
           /\ EntryOf(scan.entries, Path10B).est_ram_mb = 4650
           /\ \A i \in 1 .. Len(scan.entries) :
                scan.entries[i].score = Score(-1, 1) /\ ~scan.entries[i].fits_in_ram
           /\ mop = "select_best" => best = 0

C11_Witness ==
    /\ Scanned7BAnd10B
    /\ hw.model_budget_mb = 3000
    /\ mop = "select_best"
    /\ scan.out_count = 2
    /\ best = 0

\* C12: with the 7B (2500 MB) and the 10B (3500 MB) file and a budget of
\* 5120 MB, the scan returns both entries with fits_in_ram true and
\* select_best returns the 10B entry, whichever file readdir gives first.
C12_ScanAndSelect ==
    (Scanned7BAnd10B /\ hw.model_budget_mb = 5120)
        => /\ scan.out_count = 2
           /\ ~scan.null
           /\ {scan.entries[i].path : i \in 1 .. Len(scan.entries)} = {Path7B, Path10B}
           /\ \A i \in 1 .. Len(scan.entries) : scan.entries[i].fits_in_ram
           /\ mop = "select_best" => (best >= 1 /\ scan.entries[best].path = Path10B)

\* the 7B file was met first and the 10B entry was still selected
C12_Witness ==
    /\ Scanned7BAnd10B
    /\ hw.model_budget_mb = 5120
    /\ mop = "select_best"
    /\ scanned[1].path = Path7B
    /\ scan.entries[best].path = Path10B

\* C13: the array neuronos_model_scan returns holds the entries the traversal
\* found, each once and unaltered, in an order of non-increasing score, and
\* *out_count is its length.
C13_SortedPermutation ==
    mop # "init" =>
        /\ scan.out_count = Len(scan.entries)
        /\ Len(scan.entries) = Len(scanned)
        /\ \A i \in 1 .. Len(scanned) :
            Cardinality({j \in 1 .. Len(scan.entries) : scan.entries[j] = scanned[i]})
              = Cardinality({j \in 1 .. Len(scanned) : scanned[j] = scanned[i]})
        /\ \A i, j \in 1 .. Len(scan.entries) :
            i < j => ~ScoreGT(scan.entries[j].score, scan.entries[i].score)
        /\ scan.null <=> scanned = <<>>

\* a scan whose traversal order was not the returned order
C13_Witness ==
    /\ mop # "init"
    /\ Len(scan.entries) >= 3
    /\ scan.entries # scanned
    /\ \E i \in 1 .. Len(scan.entries) :
        ScoreGT(scan.entries[1].score, scan.entries[i].score)

(***************************************************************************)
(* Properties of the traversal                                             *)
(***************************************************************************)
\* the paths of the regular files that are in the tree under dir_path
\* themselves: no symbolic link on the way, nor the file itself one
RECURSIVE PhysicalFiles(_, _)
PhysicalFiles(dir_path, dir) ==
    UNION {LET ent == dir[i]
               path == dir_path \o "/" \o ent.d_name
           IN  IF ent.link THEN {}
               ELSE IF ent.type = "dir" THEN PhysicalFiles(path, ent.sub)
               ELSE IF ent.type = "reg" THEN {path}
               ELSE {} : i \in 1 .. Len(dir)}

\* C14: neuronos_model_scan follows no symbolic link: every entry of the
\* result is a regular file that is in the tree under dir itself.
C14_NoSymlinks ==
    \A i \in 1 .. Len(scan.entries) :
        scan.entries[i].path \in PhysicalFiles(ModelsDir, tree)

Basename(path) == SubSeq(path, LastSlash(path) + 1, Len(path))

GgufFiles(dir_path, dir) ==
    {p \in PhysicalFiles(dir_path, dir) :
        Len(Basename(p)) >= 5
        /\ SubSeq(Basename(p), Len(Basename(p)) - 4, Len(Basename(p))) = ".gguf"}

\* C15: when the tree has at most 128 regular files named *.gguf, each of
\* them, at any depth, is exactly one entry of the scan result, named by its
\* basename without .gguf, and no other file is an entry.
C15_EveryGgufOnce ==
    (mop \in {"scan", "select_best"}
     /\ Cardinality(GgufFiles(ModelsDir, tree)) <= MAX_SCAN_MODELS)
        => /\ \A p \in GgufFiles(ModelsDir, tree) :
                \E i \in 1 .. Len(scan.entries) :
                    /\ scan.entries[i].path = p
                    /\ scan.entries[i].name
                         = SubSeq(Basename(p), 1, Len(Basename(p)) - 5)
                    /\ \A j \in 1 .. Len(scan.entries) :
                        scan.entries[j].path = p => j = i
           /\ \A i \in 1 .. Len(scan.entries) :
                scan.entries[i].path \in GgufFiles(ModelsDir, tree)

\* C16: neuronos_model_scan comes back from every finite directory tree,
\* also one with paths longer than full_path, and never with more than 128
\* entries.
C16_TerminatesWithinCap ==
    /\ mop # "crash"
    /\ Len(scanned) <= MAX_SCAN_MODELS
    /\ scan.out_count <= MAX_SCAN_MODELS

(***************************************************************************)
(* Properties of the hardware detection                                    *)
(***************************************************************************)
\* C17: whatever ram_available_mb was detected, model_budget_mb is the larger
\* of 256 and ram_available_mb - 500, so it is 256 at least, and 8192 MB
\* available give a budget of 7692 MB.
C17_Budget ==
    hwinfo # NoRamInfo =>
        /\ hwinfo.model_budget_mb >= 256
        /\ hwinfo.model_budget_mb >= hwinfo.ram_available_mb - 500
        /\ hwinfo.model_budget_mb \in {256, hwinfo.ram_available_mb - 500}
        /\ hwinfo.ram_available_mb = 8192 => hwinfo.model_budget_mb = 7692

\* nothing available was detected and the budget is the minimum
C17_Witness ==
    /\ hwinfo # NoRamInfo
    /\ hwinfo.ram_available_mb <= 0
    /\ hwinfo.model_budget_mb = 256

\* whether the platform reported the total RAM, and any figure of the RAM
\* that is available
TotalReported ==
    \/ plat.os = "linux" /\ plat.MemTotal > 0
    \/ plat.os = "apple" /\ plat.memsize_mb > 0
    \/ plat.os = "win32" /\ plat.total_phys_mb > 0
    \/ plat.os = "posix" /\ plat.pages > 0 /\ plat.page_size > 0

AvailableReported ==
    \/ plat.os = "linux"
       /\ (plat.MemAvailable > 0 \/ plat.MemFree + plat.Buffers + plat.Cached > 0)
    \/ plat.os = "win32" /\ plat.avail_phys_mb > 0

\* C18: on every platform, when the total RAM is reported and the available
\* RAM is not, ram_available_mb is 60% of ram_total_mb, and when nothing is
\* reported ram_total_mb is 2048.
C18_RamFallback ==
    hwinfo # NoRamInfo =>
        /\ (TotalReported /\ ~AvailableReported)
            => hwinfo.ram_available_mb = CDiv(hwinfo.ram_total_mb * 60, 100)
        /\ (~TotalReported /\ ~AvailableReported) => hwinfo.ram_total_mb = 2048

(***************************************************************************)
(* Scalar kernels: properties                                              *)
(***************************************************************************)
Abs(i) == IF i < 0 THEN -i ELSE i
Bit(byte, k) == (byte \div (2 ^ k)) % 2

\* the unsigned value of bits 6-2g .. 7-2g of a byte
Field(byte, g) == 2 * Bit(byte, 7 - 2 * g) + Bit(byte, 6 - 2 * g)

\* the sum over j in [0, n) of raw_j * y[j] for the row that starts at
\* x + row * (bx / 4)
RowDot(row) ==
    LET n == kin.n
        term == [j \in 0 .. (n - 1) |->
                    Field(kin.x[row * (kin.bx \div 4) + (j \div 128) * 32 + (j % 32)],
                          (j % 128) \div 32) * kin.y[j]]
    IN  Accumulate(term, 0, n - 1)

\* the distance between neighbouring floats around a value of at least 2^24
Ulp(i) == 2 ^ (CHOOSE e \in 1 .. 7 : Abs(i) >= 2 ^ (23 + e) /\ (e = 7 \/ Abs(i) < 2 ^ (24 + e)))

\* C19 as stated: for every n divisible by 128 the output for each row is
\* the int32 sum of raw_j * y[j] itself.
C19_ExactSum ==
    ks # <<>> => \A row \in 0 .. (kin.nrc - 1) : ks[row] = RowDot(row)

\* C19: for every n divisible by 128 with 384 * n <= 2^31 the output for
\* each row is the int32 sum over j of raw_j * y[j], raw_j the unsigned field
\* at bits 6-2g .. 7-2g with no -1 offset, converted to float: the sum itself
\* while its magnitude is at most 2^24, which it is for every n with
\* 384 * n <= 2^24, and the nearest float (ties to even) beyond.
C19_SumAsFloat ==
    (ks # <<>> /\ kin.n \div SCALAR_QK_I2_S <= SafeRowBlocks) =>
        \A row \in 0 .. (kin.nrc - 1) :
            LET sum == RowDot(row)
            IN  /\ kin.n \div SCALAR_QK_I2_S <= ExactRowBlocks => ks[row] = sum
                /\ IF Abs(sum) <= 2 ^ 24 THEN ks[row] = sum
                   ELSE /\ ks[row] % Ulp(sum) = 0
                        /\ 2 * Abs(ks[row] - sum) <= Ulp(sum)
                        /\ 2 * Abs(ks[row] - sum) = Ulp(sum)
                               => (ks[row] \div Ulp(sum)) % 2 = 0

\* two rows of two blocks with fields of value 3, and different nonzero sums
C19_Witness ==
    /\ ks # <<>>
    /\ kin.n = 2 * SCALAR_QK_I2_S /\ kin.nrc = 2
    /\ \E i \in DOMAIN kin.x : Field(kin.x[i], 1) = 3
    /\ ks[0] # 0 /\ ks[1] # 0 /\ ks[0] # ks[1]
    /\ ks[0] = RowDot(0) /\ ks[0] < 0

\* C20: while the packing loop runs, the fields of the weights packed so far
\* unpack to their codes and the fields of the others are still zero, so
\* packing one weight alters no other field and unpacking the packed block
\* gives back the codes; packing the codes unpacked from a block of valid
\* fields gives back the block.
C20_PackUnpackInverse ==
    /\ q8 # NoCodes =>
        /\ \A j \in 0 .. (SCALAR_QK_I2_S - 1) :
              UnpackBlock(out)[j] = IF j < kj THEN q8[j] ELSE 0
        /\ kj = SCALAR_QK_I2_S => UnpackBlock(out) = q8
    /\ (blk # NoBlock /\ kj = SCALAR_QK_I2_S) => out = blk

\* a block with all three codes was unpacked and packed again
C20_Witness ==
    /\ blk # NoBlock
    /\ kj = SCALAR_QK_I2_S
    /\ \A c \in 0 .. 2 : \E j \in 0 .. (SCALAR_QK_I2_S - 1) : q8[j] = c
    /\ out = blk

(***************************************************************************)
(* Quantization: properties                                                *)
(***************************************************************************)
QuantN == qin.nrow * qin.n_per_row
Quantized == qres.ret > 0

\* the input is a whole number of blocks
WholeBlocks == QuantN % SCALAR_QK_I2_S = 0

\* byte o of dst holds the float v
ScaleAt(dst, o, v) ==
    \A k \in 0 .. 3 : dst[o + k] = Cell("f32", v, k)

\* v is the largest |w_i| for i in lo .. hi, 0 when there is no weight
IsMaxAbs(v, lo, hi) ==
    /\ \A i \in lo .. hi : Fabs(qin.src[i]) <= v
    /\ v = 0 \/ \E i \in lo .. hi : Fabs(qin.src[i]) = v

\* C21 as stated: a weight below 1e-6 in magnitude is emitted as raw code 2,
\* a larger positive one as 2, any other as 0, and the scale is max |w|.
C21_ZeroAsTwo ==
    Quantized =>
        /\ \A i \in 0 .. (QuantN - 1) :
              CodeAt(qres.dst, i) =
                  IF BelowEpsilon(qin.src[i]) THEN 2
                  ELSE IF qin.src[i] > 0 THEN 2 ELSE 0
        /\ ScaleAt(qres.dst, QuantN \div 4, MaxVal(qin.src, QuantN))

\* C21: for n weights, n a multiple of 128, a weight below 1e-6 in magnitude
\* is emitted as raw code 1, a larger positive one as 2, any other as 0, and
\* the scale is max |w| over the input.
C21_ZeroAsOne ==
    (Quantized /\ WholeBlocks) =>
        /\ \A i \in 0 .. (QuantN - 1) :
              CodeAt(qres.dst, i) =
                  IF Fabs(qin.src[i]) <= 16 THEN 1
                  ELSE IF qin.src[i] > 0 THEN 2 ELSE 0
        /\ ScaleAt(qres.dst, QuantN \div 4, qres.dst[QuantN \div 4].v)
        /\ IsMaxAbs(qres.dst[QuantN \div 4].v, 0, QuantN - 1)

\* two blocks with weights of all three kinds were quantized
C21_Witness ==
    /\ Quantized
    /\ QuantN = 2 * SCALAR_QK_I2_S
    /\ \A c \in 0 .. 2 : \E i \in 0 .. (QuantN - 1) : CodeAt(qres.dst, i) = c
    /\ \E i \in 0 .. (QuantN - 1) : qin.src[i] = 0
    /\ \E i \in 0 .. (QuantN - 1) : qin.src[i] = 16
    /\ \E i \in 0 .. (QuantN - 1) : qin.src[i] = -17

\* C22: quantizing the weights dequantized from a quantization gives the same
\* packed codes and the same scale.
C22_RoundTripFixedPoint ==
    qres2.ret > 0 => qres2.dst = qres.dst

\* C23: the output for n weights, n a multiple of 128, holds for each block
\* b its 32 packed bytes followed by the float scale of that block, 36 bytes
\* per block.
C23_ScalePerBlock ==
    (Quantized /\ WholeBlocks) =>
        \A b \in 0 .. (QuantN \div SCALAR_QK_I2_S - 1) :
            /\ \A pos \in 0 .. 31 : qres.dst[36 * b + pos].kind = "u8"
            /\ \A i \in 0 .. (SCALAR_QK_I2_S - 1) :
                  Raw(qres.dst[36 * b + (i % 32)].v, i \div 32)
                      = QuantCode(qin.src[b * SCALAR_QK_I2_S + i],
                                  MaxVal(qin.src, QuantN))
            /\ ScaleAt(qres.dst, 36 * b + 32, qres.dst[36 * b + 32].v)
            /\ IsMaxAbs(qres.dst[36 * b + 32].v, b * SCALAR_QK_I2_S,
                        b * SCALAR_QK_I2_S + SCALAR_QK_I2_S - 1)

(***************************************************************************)
(* GEMV: properties                                                        *)
(***************************************************************************)
\* C27: for the same matrix, activations and strides scalar_gemv_i2_i8 writes
\* for each row the same value at the same place of s as
\* scalar_vec_dot_i2_i8 called with nrc = nr.
C27_GemvIsVecDot ==
    (gdot # NoWrites /\ ggemv # NoWrites) => ggemv = gdot

(***************************************************************************)
(* Command line: properties                                                *)
(***************************************************************************)
Exited == exit # Running

\* the exit status the specification gives to the outcome behind each return
SuccessSites == {"hwinfo", "scanned", "info", "generated", "agent_done"}
UserErrorSites == {"usage", "no_prompt", "unknown_command", "no_models", "no_fit"}
EngineFailureSites == {"init_failed", "load_failed", "generate_failed", "agent_failed"}
BudgetSites == {"agent_budget_exhausted"}

\* C24: main returns 0 on success, 1 on a user error, 2 when the engine
\* fails and 3 when the agent's step budget is exhausted.
C24_ExitStatus ==
    Exited =>
        /\ exit.site \in SuccessSites => exit.rc = 0
        /\ exit.site \in UserErrorSites => exit.rc = 1
        /\ exit.site \in EngineFailureSites => exit.rc = 2
        /\ exit.site \in BudgetSites => exit.rc = 3

Owned == {"models", "engine", "model", "tools", "agent"}
Owner(obj) == IF obj = "best" THEN "models" ELSE obj
At(ev, op, obj) == {i \in DOMAIN ev : ev[i] = Ev(op, obj)}
First(S) == CHOOSE i \in S : \A k \in S : i <= k

\* a is released before b whenever both are
ReleasedBefore(ev, a, b) ==
    (At(ev, "release", a) # {} /\ At(ev, "release", b) # {})
        => First(At(ev, "release", a)) < First(At(ev, "release", b))

\* C30: when main returns, every engine, model, scan list, tool registry and
\* agent it created has been released exactly once, the agent before its
\* tool registry and the model before the engine, and nothing (the entry
\* returned by select_best included) was used outside the life of its owner.
C30_ReleasedOnce ==
    Exited =>
        /\ \A o \in Owned :
              /\ Cardinality(At(exit.ev, "create", o)) <= 1
              /\ Cardinality(At(exit.ev, "release", o))
                    = Cardinality(At(exit.ev, "create", o))
              /\ At(exit.ev, "create", o) # {}
                    => First(At(exit.ev, "create", o)) < First(At(exit.ev, "release", o))
        /\ ReleasedBefore(exit.ev, "agent", "tools")
        /\ ReleasedBefore(exit.ev, "model", "engine")
        /\ ReleasedBefore(exit.ev, "model", "models")
        /\ \A i \in DOMAIN exit.ev :
              exit.ev[i].op = "use" /\ Owner(exit.ev[i].obj) \in Owned =>
                  /\ \E c \in At(exit.ev, "create", Owner(exit.ev[i].obj)) : c < i
                  /\ \A r \in At(exit.ev, "release", Owner(exit.ev[i].obj)) : i < r

\* auto agent ran to the end: all five objects were created and released
C30_Witness ==
    /\ Exited
    /\ argv.cmd = "auto"
    /\ exit.site = "agent_budget_exhausted"
    /\ \A o \in Owned : At(exit.ev, "release", o) # {}
    /\ At(exit.ev, "use", "best") # {}


(***************************************************************************)
(* Built-in tools                                                          *)
(***************************************************************************)
\* C25: on a registry built by neuronos_tool_register_defaults without the
\* SHELL capability, no tool execution, whatever its arguments, runs a shell
\* command: calculate evaluates its expression in-process.
C25_NoShellWithoutCap ==
    (call.op = "execute" /\ BitAnd(granted, NEURONOS_CAP_SHELL) = 0)
        => spawned = <<>>

\* C26: every tool execution eventually returns: a call whose underlying
\* operation does not finish returns success=false with error "timeout".
C26_TimeoutReturns ==
    pending ~> (/\ ~pending
                /\ result.success = FALSE
                /\ result.error = "timeout")

\* C28: every result neuronos_tool_execute returns is well formed:
\* success=false implies a non-null error text, success=true implies a
\* non-null output text and a null error text.
C28_WellFormed ==
    (call.op = "execute" /\ ~pending)
        => /\ result.success = FALSE => result.error # NULL
           /\ result.success = TRUE  => (result.output # NULL /\ result.error = NULL)

\* a shell command that ran and exited with a non-zero status: the result
\* carries both what it printed and the error text
C28_Witness ==
    /\ call.op = "execute"
    /\ call.name = "shell"
    /\ ~pending
    /\ spawned = <<"ls">>
    /\ result.success = FALSE
    /\ result.output = "out\n"
    /\ result.error = "Command exited with status 256"

\* the names of the registry, as the grammar rule and the prompt show them
NamesShown(r, buf, before, after) ==
    \A i \in 0 .. (r.count - 1) :
        Strstr(buf, before \o r.tools[i].name \o after) # 0

\* C29: neuronos_tool_grammar_names and neuronos_tool_prompt_description
\* never write beyond their buffers: the running length stays within the
\* capacity, cap - len never underflows, and every registered name is in
\* the output untruncated.
C29_WithinBuffers ==
    /\ (call.op = "grammar_names" /\ reg.count > 0)
          => LET b == neuronos_tool_grammar_names(reg)
             IN  /\ b.len <= b.cap
                 /\ ~grammar.oob
                 /\ NamesShown(reg, grammar.buf, "\"\\\"", "\\\"\"")
    /\ (call.op = "prompt_description" /\ reg.count > 0)
          => LET b == neuronos_tool_prompt_description(reg)
             IN  /\ b.len <= b.cap
                 /\ ~grammar.oob
                 /\ NamesShown(reg, grammar.buf, "- ", ": ")

====
